---- MODULE Spec2Model ----
\* Ratatoskr: event board bot.  Model of the signup reconciliation engine
\* (src/src/handlers/reaction_handler.py), the delivery deduplicator
\* (src/src/main.py), the store (src/src/managers/database_manager.py), the
\* scheduler sweeps (src/src/handlers/reminder.py) and the edit / delete
\* dialogues (src/src/handlers/event_manage.py).
\*
\* Every coroutine is a task with a program counter.  A task whose pc names an
\* awaited call is suspended in that call; the action of that name is the
\* call taking effect together with the synchronous code that runs up to the
\* next await.  Tasks interleave only at awaits, as asyncio schedules them.
EXTENDS Integers, Sequences, FiniteSets, TLC

VARIABLES
    now,               \* wall clock, seconds
    events,            \* table events: id -> row
    signups,           \* table signups: set of rows
    reactions,         \* reactions users hold at the gateway: <<message, user, glyph>>
    gw_queue,          \* reaction events the gateway has still to deliver, in order
    seen_events,       \* main._seen_events: dedup key -> time recorded
    tasks,             \* running handle_add / handle_remove coroutines
    pending_removals,  \* ReactionHandler._pending_removals
    render_pending,    \* ReactionHandler._render_pending: event id -> render task
    render_tasks,      \* _debounced_render coroutines
    board,             \* content of the event messages in the board channel
    reminder_loop,     \* ReminderHandler._reminder_loop coroutine
    cleanup_loop,      \* ReminderHandler._cleanup_loop coroutine
    dm_log,            \* reminder direct messages attempted: <<event id, user, delivered>>
    dialogs,           \* running handle_edit / handle_delete coroutines
    _recent_events,    \* ExampleHandler._recent_events: dedup key -> time.monotonic()
    monotonic,         \* time.monotonic(), seconds
    _running,          \* ReminderHandler._running
    loop_tasks,        \* the tasks ReminderHandler.start created, in order
    hist               \* history kept for stating the properties (never read by the program)

vars == <<now, events, signups, reactions, gw_queue, seen_events, tasks,
          pending_removals, render_pending, render_tasks, board,
          reminder_loop, cleanup_loop, dm_log, dialogs, _recent_events,
          monotonic, _running, loop_tasks, hist>>

react_vars == <<reactions, gw_queue, seen_events, tasks, pending_removals>>
render_vars == <<render_pending, render_tasks, board>>
sched_vars == <<reminder_loop, cleanup_loop, dm_log>>
other_vars == <<_recent_events, monotonic, _running, loop_tasks>>

\* ------------------------------------------------------------------ bounds
\* user reaction clicks in one run
MaxActions == 3
\* user reaction clicks in one run with the clock running
MaxClicks == 2
\* last instant of the seconds clock of the reaction engine
MaxTime == 3
\* handle_add / handle_remove coroutines in flight at once
MaxTasks == 2
\* dialogue tasks alive at once, and commands sent in a run
MaxDialogs == 1
MaxCommands == 1

\* ------------------------------------------------------- program constants
_DEDUP_TTL == 2

None == "None"
Max(a, b) == IF a >= b THEN a ELSE b
Min(a, b) == IF a <= b THEN a ELSE b
SeqToSet(s) == {s[i] : i \in DOMAIN s}

\* --------------------------------------------------------- configuration
\* roles_config.json: two signup roles and the declined entry.  "alpha" has no
\* role id at all (open to everyone), "bravo" accepts the guild role "r1".
roles_config ==
    [signup_roles |->
        << [key |-> "alpha", emoji |-> "A", role_id |-> "", role_ids_accepted |-> {}],
           [key |-> "bravo", emoji |-> "B", role_id |-> "", role_ids_accepted |-> {"r1"}] >>,
     declined |-> [emoji |-> "X"]]

command_staff_role_id == "staff"

\* member.roles of the guild members (the gateway's state, fixed in a run)
member_roles ==
    [u \in {"u1", "u2", "u3"} |->
        IF u = "u1" THEN {"r1"} ELSE IF u = "u2" THEN {} ELSE {"staff"}]

Users == {"u1", "u2"}
Glyphs == {"A", "B"}
\* every guild member (u3 holds the staff role) and every configured glyph
Members == {"u1", "u2", "u3"}
ConfiguredGlyphs == {"A", "B", "X"}
BoardMessage == "m1"

\* ---------------------------------------------------- event_formatter.py
emoji_to_role_key(emoji) ==
    LET hits == {i \in DOMAIN roles_config.signup_roles :
                    roles_config.signup_roles[i].emoji = emoji}
    IN  IF hits # {}
        THEN roles_config.signup_roles[CHOOSE i \in hits : \A j \in hits : i <= j].key
        ELSE IF roles_config.declined.emoji = emoji THEN "declined" ELSE None

role_key_to_emoji(role_key) ==
    IF role_key = "declined" THEN roles_config.declined.emoji
    ELSE LET hits == {i \in DOMAIN roles_config.signup_roles :
                         roles_config.signup_roles[i].key = role_key}
         IN  IF hits # {}
             THEN roles_config.signup_roles[CHOOSE i \in hits : \A j \in hits : i <= j].emoji
             ELSE None

get_accepted_role_ids(role_key) ==
    LET hits == {i \in DOMAIN roles_config.signup_roles :
                    roles_config.signup_roles[i].key = role_key}
    IN  IF hits = {} THEN {}
        ELSE LET role_def == roles_config.signup_roles[CHOOSE i \in hits : \A j \in hits : i <= j]
             IN  IF role_def.role_ids_accepted # {} THEN role_def.role_ids_accepted
                 ELSE IF role_def.role_id # "" THEN {role_def.role_id}
                 ELSE {}

\* The text of an event post: title, description and time of the event and,
\* per role section, the names signed up under it.
render_event_post(event, roster) ==
    [title |-> event.title, description |-> event.description,
     event_time |-> event.event_time,
     sections |-> {<<s.role_key, s.user_id>> : s \in roster}]

\* ---------------------------------------------------- database_manager.py
\* The lookups return the id of the row found; NoId stands for Python's None.
NoId == 0

\* a lookup without the "expired = 0" condition
get_event_by_message_id_any(message_id) ==
    LET hits == {id \in DOMAIN events : events[id].message_id = message_id}
    IN  IF hits = {} THEN NoId ELSE CHOOSE id \in hits : TRUE

get_event_by_message_id(message_id) ==
    LET hits == {id \in DOMAIN events :
                    events[id].message_id = message_id /\ ~events[id].expired}
    IN  IF hits = {} THEN NoId ELSE CHOOSE id \in hits : TRUE

get_event_by_id(event_id) ==
    IF event_id \in DOMAIN events /\ ~events[event_id].expired THEN event_id ELSE NoId

get_signup(event_id, user_id) ==
    LET hits == {s \in signups : s.event_id = event_id /\ s.user_id = user_id}
    IN  IF hits = {} THEN None ELSE (CHOOSE s \in hits : TRUE).role_key

get_signups_for_event(event_id) == {s \in signups : s.event_id = event_id}

get_signups_for_reminder(event_id) ==
    {s \in signups : s.event_id = event_id /\ s.role_key # "declined"}

\* INSERT ... ON CONFLICT(event_id, user_id) DO UPDATE
upsert_signup_lossy(table, event_id, user_id, role_key) ==
    table \cup {[event_id |-> event_id, user_id |-> user_id, role_key |-> role_key]}

upsert_signup_keep(table, event_id, user_id, role_key) ==
    IF \E s \in table : s.event_id = event_id /\ s.user_id = user_id
    THEN table
    ELSE table \cup {[event_id |-> event_id, user_id |-> user_id, role_key |-> role_key]}

upsert_signup(table, event_id, user_id, role_key) ==
    {s \in table : ~(s.event_id = event_id /\ s.user_id = user_id)}
        \cup {[event_id |-> event_id, user_id |-> user_id, role_key |-> role_key]}

remove_signup(table, event_id, user_id) ==
    {s \in table : ~(s.event_id = event_id /\ s.user_id = user_id)}

delete_signups_for_event(table, event_id) ==
    {s \in table : s.event_id # event_id}

\* ------------------------------------------------------------- main.py
\* The keys _is_duplicate prunes at time t: those recorded more than the TTL ago.
seen_expired_early(seen, t) == {k \in DOMAIN seen : t - seen[k] >= _DEDUP_TTL}

seen_expired(seen, t) == {k \in DOMAIN seen : t - seen[k] > _DEDUP_TTL}

seen_pruned(seen, t) == [k \in DOMAIN seen \ seen_expired(seen, t) |-> seen[k]]

\* _is_duplicate(event_key): its result, and _seen_events after the call
_is_duplicate(event_key, seen, t) == event_key \in DOMAIN seen_pruned(seen, t)

\* a guard that restarts the window of a key on every call
seen_after_refreshing(event_key, seen, t) ==
    LET kept == seen_pruned(seen, t)
    IN  [k \in DOMAIN kept \cup {event_key} |->
            IF k = event_key THEN t ELSE kept[k]]

seen_after(event_key, seen, t) ==
    LET kept == seen_pruned(seen, t)
    IN  IF event_key \in DOMAIN kept THEN kept
        ELSE [k \in DOMAIN kept \cup {event_key} |->
                 IF k = event_key THEN t ELSE kept[k]]

\* f"radd-{message.id}-{user.id}-{emoji}" / f"rrem-..."
dedup_key(ev) == <<ev.kind, ev.m, ev.u, ev.g>>

\* ------------------------------------------------ reaction_handler.py
\* role_check: what the guild lookup of _user_has_role did, when handle_add
\* consulted it and refused the reaction ("failed": log.error "Role check
\* failed")
IdleTask ==
    [pc |-> "idle", kind |-> None, m |-> None, u |-> None, g |-> None,
     event_id |-> 0, role_key |-> None, existing |-> None, removed |-> <<>>,
     role_check |-> None]

free_slot == CHOOSE i \in 1..MaxTasks :
                 tasks[i].pc = "idle" /\ \A j \in 1..MaxTasks : tasks[j].pc = "idle" => i <= j

has_free_slot == \E i \in 1..MaxTasks : tasks[i].pc = "idle"

\* _is_command_staff(user): False when no staff role is configured or the
\* guild lookup raises
_is_command_staff(user_id, lookup_ok) ==
    IF command_staff_role_id = "" THEN FALSE
    ELSE IF ~lookup_ok THEN FALSE
    ELSE command_staff_role_id \in member_roles[user_id]

\* a role check that lets the user in when the lookup raises
_user_has_role_open(user_id, role_key, lookup_ok) ==
    LET accepted_ids == get_accepted_role_ids(role_key)
    IN  IF accepted_ids = {} THEN TRUE
        ELSE IF ~lookup_ok THEN TRUE
        ELSE accepted_ids \cap member_roles[user_id] # {}

\* _user_has_role(user, role_key)
_user_has_role(user_id, role_key, lookup_ok) ==
    LET accepted_ids == get_accepted_role_ids(role_key)
    IN  IF accepted_ids = {} THEN TRUE
        ELSE IF ~lookup_ok THEN FALSE
        ELSE accepted_ids \cap member_roles[user_id] # {}

\* Render tasks.  A task sleeping in asyncio.sleep is outside the try block:
\* cancelling it ends it with no further step.  A task cancelled inside the
\* try block runs its finally clause when it is next scheduled.
RenderSlots == 1..MaxTasks

NoEvent ==
    [message_id |-> None, creator_id |-> None, title |-> None, description |-> None,
     event_time |-> 0, reminder_sent |-> FALSE, expired |-> FALSE]

IdleRender ==
    [pc |-> "idle", event_id |-> 0, cancelled |-> FALSE, event |-> NoEvent, roster |-> {}]

free_render == CHOOSE r \in RenderSlots :
                  render_tasks[r].pc = "idle"
                  /\ \A q \in RenderSlots : render_tasks[q].pc = "idle" => r <= q

has_free_render == \E r \in RenderSlots : render_tasks[r].pc = "idle"

\* task.cancel()
cancel(rt, r) ==
    IF rt[r].pc = "idle" THEN rt
    ELSE IF rt[r].pc = "sleep" THEN [rt EXCEPT ![r] = IdleRender]
    ELSE [rt EXCEPT ![r].cancelled = TRUE]

\* Is the mutation that calls _schedule_re_render(event_id) now within the
\* debounce delay of the previous one?  Yes when the task the previous
\* mutation created is still in its sleep.
in_burst(event_id) ==
    /\ hist.burst[event_id].n > 0
    /\ render_tasks[hist.burst[event_id].last].pc = "sleep"
    /\ render_tasks[hist.burst[event_id].last].event_id = event_id

\* _schedule_re_render(event_id): cancel the registered task, then register a
\* new one
_schedule_re_render(event_id) ==
    LET old == render_pending[event_id]
        cancelled == IF old # 0 THEN cancel(render_tasks, old) ELSE render_tasks
        r == CHOOSE r \in RenderSlots :
                 cancelled[r].pc = "idle"
                 /\ \A q \in RenderSlots : cancelled[q].pc = "idle" => r <= q
    IN  /\ \E q \in RenderSlots : cancelled[q].pc = "idle"
        /\ render_tasks' = [cancelled EXCEPT ![r] =
               [IdleRender EXCEPT !.pc = "sleep", !.event_id = event_id]]
        /\ render_pending' = [render_pending EXCEPT ![event_id] = r]
        /\ hist' = [hist EXCEPT !.burst[event_id] =
               IF in_burst(event_id)
               THEN [@ EXCEPT !.n = Min(@ + 1, 2), !.last = r]
               ELSE [n |-> 1, edits |-> 0, last |-> r]]

\* --------------------------------------------------- the gateway's side
GwEvent(kind, u, g, by_bot) ==
    [kind |-> kind, m |-> BoardMessage, u |-> u, g |-> g,
     redelivery |-> FALSE, by_bot |-> by_bot]

\* A member clicks a glyph on the event post.
user_adds_reaction(u, g) ==
    /\ <<BoardMessage, u, g>> \notin reactions
    /\ reactions' = reactions \cup {<<BoardMessage, u, g>>}
    /\ gw_queue' = Append(gw_queue, GwEvent("add", u, g, FALSE))
    /\ hist' = [hist EXCEPT !.actions = @ + 1]
    /\ UNCHANGED <<now, events, signups, seen_events, tasks, pending_removals,
                   render_vars, sched_vars, dialogs,
                   other_vars>>

\* The messages of the channel a member may react to: the post of the active
\* event, the post of the retired event and a message that is no event post.
ChannelMessages == {BoardMessage, "m2", "m0"}

\* A member clicks a glyph on a message that is not the post of the active
\* event.
user_adds_reaction_elsewhere(m, u, g) ==
    /\ m # BoardMessage
    /\ <<m, u, g>> \notin reactions
    /\ reactions' = reactions \cup {<<m, u, g>>}
    /\ gw_queue' = Append(gw_queue, [GwEvent("add", u, g, FALSE) EXCEPT !.m = m])
    /\ hist' = [hist EXCEPT !.actions = @ + 1]
    /\ UNCHANGED <<now, events, signups, seen_events, tasks, pending_removals,
                   render_vars, sched_vars, dialogs,
                   other_vars>>

\* A member takes a glyph back.
user_removes_reaction(u, g) ==
    /\ <<BoardMessage, u, g>> \in reactions
    /\ reactions' = reactions \ {<<BoardMessage, u, g>>}
    /\ gw_queue' = Append(gw_queue, GwEvent("remove", u, g, FALSE))
    /\ hist' = [hist EXCEPT !.actions = @ + 1]
    /\ UNCHANGED <<now, events, signups, seen_events, tasks, pending_removals,
                   render_vars, sched_vars, dialogs,
                   other_vars>>

\* One second passes.
Tick ==
    /\ now < MaxTime
    /\ now' = now + 1
    /\ UNCHANGED <<events, signups, react_vars, render_vars, sched_vars, dialogs, hist,
                   other_vars>>

\* The gateway hands the head of its queue to the client, which fires every
\* event once or twice.
queue_after_delivery(again) ==
    IF again THEN <<[Head(gw_queue) EXCEPT !.redelivery = TRUE]>> \o Tail(gw_queue)
    ELSE Tail(gw_queue)

dispatch_hist(ev, dup, consumed) ==
    [hist EXCEPT !.last_dispatch = [key |-> dedup_key(ev), dup |-> dup,
                                    redelivery |-> ev.redelivery,
                                    consumed |-> consumed],
                 !.ran[dedup_key(ev)] = IF dup THEN @ ELSE now]

\* main.on_reaction_add: dedup guard, then handle_add up to its first await
on_reaction_add ==
    /\ gw_queue # <<>>
    /\ Head(gw_queue).kind = "add"
    /\ LET ev == Head(gw_queue)
           dup == _is_duplicate(dedup_key(ev), seen_events, now)
       IN  /\ dup \/ has_free_slot
           /\ seen_events' = seen_after(dedup_key(ev), seen_events, now)
           /\ \E again \in (IF ev.redelivery THEN {FALSE} ELSE BOOLEAN) :
                  gw_queue' = queue_after_delivery(again)
           /\ tasks' = IF dup THEN tasks
                       ELSE [tasks EXCEPT ![free_slot] =
                                [IdleTask EXCEPT !.pc = "get_event", !.kind = "add",
                                                 !.m = ev.m, !.u = ev.u, !.g = ev.g]]
           /\ hist' = dispatch_hist(ev, dup, FALSE)
    /\ UNCHANGED <<now, events, signups, reactions, pending_removals,
                   render_vars, sched_vars, dialogs,
                   other_vars>>

\* handle_remove: was this removal registered by the bot?
is_self_inflicted_never(removal_key) == FALSE

is_self_inflicted(removal_key) == removal_key \in pending_removals

\* main.on_reaction_remove: dedup guard, then handle_remove up to its first
\* await: a removal the bot registered is consumed and the handler returns
on_reaction_remove ==
    /\ gw_queue # <<>>
    /\ Head(gw_queue).kind = "remove"
    /\ LET ev == Head(gw_queue)
           dup == _is_duplicate(dedup_key(ev), seen_events, now)
           removal_key == <<ev.m, ev.u, ev.g>>
           self_inflicted == is_self_inflicted(removal_key)
       IN  /\ dup \/ self_inflicted \/ has_free_slot
           /\ seen_events' = seen_after(dedup_key(ev), seen_events, now)
           /\ \E again \in (IF ev.redelivery THEN {FALSE} ELSE BOOLEAN) :
                  gw_queue' = queue_after_delivery(again)
           /\ pending_removals' = IF ~dup /\ self_inflicted
                                  THEN pending_removals \ {removal_key}
                                  ELSE pending_removals
           /\ tasks' = IF dup \/ self_inflicted THEN tasks
                       ELSE [tasks EXCEPT ![free_slot] =
                                [IdleTask EXCEPT !.pc = "get_event", !.kind = "remove",
                                                 !.m = ev.m, !.u = ev.u, !.g = ev.g]]
           /\ hist' = dispatch_hist(ev, dup, ~dup /\ self_inflicted)
    /\ UNCHANGED <<now, events, signups, reactions, render_vars, sched_vars, dialogs,
                   other_vars>>

\* message.remove_reaction(emoji, user) returning to _remove_reaction, which
\* registered removal_key before the call.  ok: the gateway takes the reaction
\* off, and emits a remove event if the member held it.  ~ok: the call raises
\* and the except clause discards removal_key.
remove_reaction_returns(m, u, g, ok) ==
    /\ reactions' = IF ok THEN reactions \ {<<m, u, g>>} ELSE reactions
    /\ gw_queue' = IF ok /\ <<m, u, g>> \in reactions
                   THEN Append(gw_queue, GwEvent("remove", u, g, TRUE))
                   ELSE gw_queue
    /\ pending_removals' = IF ok THEN pending_removals
                           ELSE pending_removals \ {<<m, u, g>>}
    /\ hist' = [hist EXCEPT !.removal_failed = @ \/ ~ok]

\* handle_add steps 1-4: the event lookup returns; emoji, staff and role
\* checks; an unwanted reaction is registered and its removal is issued
handle_add_get_event(i) ==
    /\ tasks[i].pc = "get_event" /\ tasks[i].kind = "add"
    /\ \E staff_ok \in BOOLEAN, role_ok \in BOOLEAN :
        LET t == tasks[i]
            event_id == get_event_by_message_id(t.m)
            role_key == emoji_to_role_key(t.g)
            unwanted == \/ role_key = None
                        \/ _is_command_staff(t.u, staff_ok)
                        \/ role_key # "declined" /\ ~_user_has_role(t.u, role_key, role_ok)
            consulted == /\ role_key \notin {None, "declined"}
                         /\ ~_is_command_staff(t.u, staff_ok)
                         /\ get_accepted_role_ids(role_key) # {}
            role_check == IF ~consulted THEN None
                          ELSE IF role_ok THEN "returned" ELSE "failed"
        IN  IF event_id = NoId
            THEN /\ tasks' = [tasks EXCEPT ![i].pc = "done"]
                 /\ UNCHANGED pending_removals
            ELSE IF unwanted
            THEN /\ pending_removals' = pending_removals \cup {<<t.m, t.u, t.g>>}
                 /\ tasks' = [tasks EXCEPT ![i].pc = "reject_remove",
                                           ![i].event_id = event_id,
                                           ![i].role_key = role_key,
                                           ![i].role_check = role_check,
                                           ![i].removed = Append(@, t.g)]
            ELSE /\ tasks' = [tasks EXCEPT ![i].pc = "get_signup",
                                           ![i].event_id = event_id,
                                           ![i].role_key = role_key]
                 /\ UNCHANGED pending_removals
    /\ UNCHANGED <<now, events, signups, reactions, gw_queue, seen_events,
                   render_vars, sched_vars, dialogs, hist,
                   other_vars>>

\* the removal of an unwanted reaction returns; handle_add returns
handle_add_reject_remove(i) ==
    /\ tasks[i].pc = "reject_remove"
    /\ \E ok \in BOOLEAN : remove_reaction_returns(tasks[i].m, tasks[i].u, tasks[i].g, ok)
    /\ tasks' = [tasks EXCEPT ![i].pc = "done", ![i].role_check = None]
    /\ UNCHANGED <<now, events, signups, seen_events, render_vars, sched_vars, dialogs,
                   other_vars>>

\* handle_add step 5: get_signup returns; on a switch the old glyph is
\* registered and its removal is issued
handle_add_get_signup(i) ==
    /\ tasks[i].pc = "get_signup" /\ tasks[i].kind = "add"
    /\ LET t == tasks[i]
           existing == get_signup(t.event_id, t.u)
           old_emoji == IF existing = None THEN None ELSE role_key_to_emoji(existing)
       IN  IF existing # None /\ existing # t.role_key /\ old_emoji # None
           THEN /\ pending_removals' = pending_removals \cup {<<t.m, t.u, old_emoji>>}
                /\ tasks' = [tasks EXCEPT ![i].pc = "switch_remove",
                                          ![i].existing = existing,
                                          ![i].removed = Append(@, old_emoji)]
           ELSE /\ tasks' = [tasks EXCEPT ![i].pc = "upsert", ![i].existing = existing]
                /\ UNCHANGED pending_removals
    /\ UNCHANGED <<now, events, signups, reactions, gw_queue, seen_events,
                   render_vars, sched_vars, dialogs, hist,
                   other_vars>>

\* the removal of the old glyph returns
handle_add_switch_remove(i) ==
    /\ tasks[i].pc = "switch_remove"
    /\ \E ok \in BOOLEAN :
          remove_reaction_returns(tasks[i].m, tasks[i].u,
                                  role_key_to_emoji(tasks[i].existing), ok)
    /\ tasks' = [tasks EXCEPT ![i].pc = "upsert"]
    /\ UNCHANGED <<now, events, signups, seen_events, render_vars, sched_vars, dialogs,
                   other_vars>>

\* handle_add steps 6-7: the upsert takes effect, the re-render is scheduled
handle_add_upsert(i) ==
    /\ tasks[i].pc = "upsert"
    /\ signups' = upsert_signup(signups, tasks[i].event_id, tasks[i].u, tasks[i].role_key)
    /\ _schedule_re_render(tasks[i].event_id)
    /\ tasks' = [tasks EXCEPT ![i].pc = "done"]
    /\ UNCHANGED <<now, events, reactions, gw_queue, seen_events, pending_removals,
                   board, sched_vars, dialogs,
                   other_vars>>

\* handle_remove: the event lookup returns; the emoji is resolved
handle_remove_get_event(i) ==
    /\ tasks[i].pc = "get_event" /\ tasks[i].kind = "remove"
    /\ LET t == tasks[i]
           event_id == get_event_by_message_id(t.m)
           role_key == emoji_to_role_key(t.g)
       IN  tasks' = IF event_id = NoId \/ role_key = None
                    THEN [tasks EXCEPT ![i].pc = "done"]
                    ELSE [tasks EXCEPT ![i].pc = "get_signup", ![i].event_id = event_id,
                                       ![i].role_key = role_key]
    /\ UNCHANGED <<now, events, signups, reactions, gw_queue, seen_events,
                   pending_removals, render_vars, sched_vars, dialogs, hist,
                   other_vars>>

\* handle_remove: get_signup returns
handle_remove_get_signup(i) ==
    /\ tasks[i].pc = "get_signup" /\ tasks[i].kind = "remove"
    /\ LET existing == get_signup(tasks[i].event_id, tasks[i].u)
       IN  tasks' = IF existing # None /\ existing = tasks[i].role_key
                    THEN [tasks EXCEPT ![i].pc = "remove_signup", ![i].existing = existing]
                    ELSE [tasks EXCEPT ![i].pc = "done", ![i].existing = existing]
    /\ UNCHANGED <<now, events, signups, reactions, gw_queue, seen_events,
                   pending_removals, render_vars, sched_vars, dialogs, hist,
                   other_vars>>

\* handle_remove: remove_signup takes effect, the re-render is scheduled
handle_remove_remove_signup(i) ==
    /\ tasks[i].pc = "remove_signup"
    /\ signups' = remove_signup(signups, tasks[i].event_id, tasks[i].u)
    /\ _schedule_re_render(tasks[i].event_id)
    /\ tasks' = [tasks EXCEPT ![i].pc = "done"]
    /\ UNCHANGED <<now, events, reactions, gw_queue, seen_events, pending_removals,
                   board, sched_vars, dialogs,
                   other_vars>>

\* a finished handler coroutine is dropped
handler_returns(i) ==
    /\ tasks[i].pc = "done"
    /\ tasks' = [tasks EXCEPT ![i] = IdleTask]
    /\ UNCHANGED <<now, events, signups, reactions, gw_queue, seen_events,
                   pending_removals, render_vars, sched_vars, dialogs, hist,
                   other_vars>>

\* _debounced_render: asyncio.sleep(0.1) is over, the task enters its try block
render_wake(r) ==
    /\ render_tasks[r].pc = "sleep"
    /\ render_tasks' = [render_tasks EXCEPT ![r].pc = "get_event"]
    /\ UNCHANGED <<now, events, signups, react_vars, render_pending, board,
                   sched_vars, dialogs, hist,
                   other_vars>>

\* the finally clause: self._render_pending.pop(event_id, None)
render_finally(r) == [render_pending EXCEPT ![render_tasks[r].event_id] = 0]

\* _debounced_render: get_event_by_id returns
render_get_event(r) ==
    /\ render_tasks[r].pc = "get_event" /\ ~render_tasks[r].cancelled
    /\ LET event_id == get_event_by_id(render_tasks[r].event_id)
       IN  IF event_id = NoId
           THEN /\ render_pending' = render_finally(r)
                /\ render_tasks' = [render_tasks EXCEPT ![r] = IdleRender]
           ELSE /\ render_tasks' = [render_tasks EXCEPT ![r].pc = "get_signups",
                                                        ![r].event = events[event_id]]
                /\ UNCHANGED render_pending
    /\ UNCHANGED <<now, events, signups, react_vars, board, sched_vars, dialogs, hist,
                   other_vars>>

\* _debounced_render: get_signups_for_event returns
render_get_signups(r) ==
    /\ render_tasks[r].pc = "get_signups" /\ ~render_tasks[r].cancelled
    /\ render_tasks' = [render_tasks EXCEPT
           ![r].pc = "edit",
           ![r].roster = get_signups_for_event(render_tasks[r].event_id)]
    /\ UNCHANGED <<now, events, signups, react_vars, render_pending, board,
                   sched_vars, dialogs, hist,
                   other_vars>>

\* _debounced_render: the text is rendered and msg.edit returns (ok), or one
\* of the gateway calls raises and the failure is logged (~ok); the finally
\* clause runs
render_edit(r) ==
    /\ render_tasks[r].pc = "edit" /\ ~render_tasks[r].cancelled
    /\ \E ok \in BOOLEAN :
        LET t == render_tasks[r]
        IN  /\ board' = IF ok
                        THEN [board EXCEPT ![t.event.message_id] =
                                 render_event_post(t.event, t.roster)]
                        ELSE board
            /\ hist' = [hist EXCEPT !.burst[t.event_id] =
                           IF ok /\ @.edits >= 0 THEN [@ EXCEPT !.edits = Min(@ + 1, 2)]
                           ELSE [@ EXCEPT !.edits = -1]]
    /\ render_pending' = render_finally(r)
    /\ render_tasks' = [render_tasks EXCEPT ![r] = IdleRender]
    /\ UNCHANGED <<now, events, signups, react_vars, sched_vars, dialogs,
                   other_vars>>

\* _debounced_render: a task cancelled inside its try block is resumed with
\* CancelledError; only the finally clause runs
render_cancelled(r) ==
    /\ render_tasks[r].pc \in {"get_event", "get_signups", "edit"}
    /\ render_tasks[r].cancelled
    /\ render_pending' = render_finally(r)
    /\ render_tasks' = [render_tasks EXCEPT ![r] = IdleRender]
    /\ UNCHANGED <<now, events, signups, react_vars, board, sched_vars, dialogs, hist,
                   other_vars>>

\* ------------------------------------------------------------ initial state
EventIds == {1, 2}

DedupKeys ==
    {<<k, m, u, g>> : k \in {"add", "remove"}, m \in ChannelMessages, u \in Members,
                      g \in ConfiguredGlyphs}

\* A background loop between sweeps: asleep until wake_at.  todo holds the
\* events the sweep selected and has not finished, dms the signup holders of
\* the head event not yet messaged.
IdleLoop == [pc |-> "sleep", wake_at |-> 0, todo |-> <<>>, dms |-> <<>>]

\* A dialogue task of handle_edit / handle_delete that has ended.
IdleDialog ==
    [pc |-> "idle", kind |-> "edit", user |-> "u3", event_id |-> NoId,
     field |-> None, text |-> None, time |-> 0, attempt |-> 0, event |-> NoEvent,
     roster |-> {}, reply |-> None, sent |-> None]

\* a task that ends without telling its initiator why
Ended_unnoticed(dlg, reply, sent) ==
    [IdleDialog EXCEPT !.pc = "done", !.kind = dlg.kind, !.user = dlg.user,
                       !.event_id = dlg.event_id, !.reply = reply]

\* A dialogue task that has run to its return: reply is the last answer
\* _wait_for_dm gave it (None when the task ended elsewhere), sent the notice
\* it handed to author.send on its way out (None: nothing).
Ended(dlg, reply, sent) ==
    [IdleDialog EXCEPT !.pc = "done", !.kind = dlg.kind, !.user = dlg.user,
                       !.event_id = dlg.event_id, !.reply = reply, !.sent = sent]

\* asyncio.TimeoutError out of bot.wait_for
TimeoutError == "TimeoutError"

\* what an initiator may answer to a prompt that takes free text
Replies == {"text", "cancel", "CANCEL", TimeoutError}

\* a comparison of the reply as typed
lower_as_typed(text) == text

\* str.lower() on the answers of the model
lower(text) == IF text = "CANCEL" THEN "cancel" ELSE text

\* A background task of ReminderHandler: asleep between two sweeps, in a
\* sweep, or returned from its loop.
LoopTask(loop) == [loop |-> loop, pc |-> "sleep"]

\* The example handler has seen no message; on_ready has run once, so that
\* both background loops are running.
InitOther ==
    /\ _recent_events = <<>>
    /\ monotonic = 0
    /\ _running = TRUE
    /\ loop_tasks = <<LoopTask("reminder"), LoopTask("cleanup")>>

InitHist ==
    [actions |-> 0,
     ran |-> [k \in DedupKeys |-> -1],
     last_dispatch |-> [key |-> <<"add", BoardMessage, "u1", "A">>, dup |-> FALSE,
                        redelivery |-> FALSE, consumed |-> FALSE],
     burst |-> [e \in EventIds |->
                  [n |-> 0, edits |-> 0, last |-> 1]],
     commands |-> 0,
     gate |-> [user |-> None, lookup |-> None],
     edit_failed |-> FALSE,
     removal_failed |-> FALSE,
     calls |-> 0,
     lifecycle |-> 0,
     example |-> [key |-> None, dup |-> FALSE],
     stopped |-> {},
     swept |-> {},
     reminded |-> [e \in EventIds |-> FALSE]]

\* The reaction engine: one active event on the board, posted by the staff
\* member u3, and one retired event.
InitReact ==
    /\ now = 0
    /\ events = [id \in EventIds |->
          [message_id |-> IF id = 1 THEN BoardMessage ELSE "m2", creator_id |-> "u3",
           title |-> "t0", description |-> "d0", event_time |-> 1000,
           reminder_sent |-> FALSE, expired |-> (id = 2)]]
    /\ signups = {}
    /\ reactions = {}
    /\ gw_queue = <<>>
    /\ seen_events = <<>>
    /\ tasks = [i \in 1..MaxTasks |-> IdleTask]
    /\ pending_removals = {}
    /\ render_pending = [e \in EventIds |-> 0]
    /\ render_tasks = [r \in RenderSlots |-> IdleRender]
    /\ board = [m \in {BoardMessage, "m2"} |-> render_event_post(events[1], {})]
    /\ reminder_loop = IdleLoop
    /\ cleanup_loop = IdleLoop
    /\ dm_log = {}
    /\ dialogs = [d \in 1..MaxDialogs |-> IdleDialog]
    /\ InitOther
    /\ hist = InitHist

\* The steps of the bot: dispatchers, handlers, render tasks.
ReactSteps ==
    \/ on_reaction_add
    \/ on_reaction_remove
    \/ \E i \in 1..MaxTasks : handle_add_get_event(i)
    \/ \E i \in 1..MaxTasks : handle_add_reject_remove(i)
    \/ \E i \in 1..MaxTasks : handle_add_get_signup(i)
    \/ \E i \in 1..MaxTasks : handle_add_switch_remove(i)
    \/ \E i \in 1..MaxTasks : handle_add_upsert(i)
    \/ \E i \in 1..MaxTasks : handle_remove_get_event(i)
    \/ \E i \in 1..MaxTasks : handle_remove_get_signup(i)
    \/ \E i \in 1..MaxTasks : handle_remove_remove_signup(i)
    \/ \E i \in 1..MaxTasks : handler_returns(i)
    \/ \E r \in RenderSlots : render_wake(r)
    \/ \E r \in RenderSlots : render_get_event(r)
    \/ \E r \in RenderSlots : render_get_signups(r)
    \/ \E r \in RenderSlots : render_edit(r)
    \/ \E r \in RenderSlots : render_cancelled(r)

\* A burst of clicks by two members, all within the dedup window.
NextReact ==
    \/ \E u \in Users, g \in Glyphs :
          hist.actions < MaxActions /\ user_adds_reaction(u, g)
    \/ \E u \in Users, g \in Glyphs :
          hist.actions < MaxActions /\ user_removes_reaction(u, g)
    \/ ReactSteps

SpecReact == InitReact /\ [][NextReact]_vars

\* One member clicking while the clock runs: deliveries inside and outside the
\* dedup window.
NextDedup ==
    \/ \E g \in Glyphs : hist.actions < MaxClicks /\ user_adds_reaction("u1", g)
    \/ \E g \in Glyphs : hist.actions < MaxClicks /\ user_removes_reaction("u1", g)
    \/ Tick
    \/ ReactSteps

SpecDedup == InitReact /\ [][NextDedup]_vars

\* Single clicks by every kind of member (eligible, not eligible, staff) on
\* every configured glyph.
NextGate ==
    \/ \E u \in Members, g \in ConfiguredGlyphs :
          hist.actions < MaxClicks /\ user_adds_reaction(u, g)
    \/ \E u \in Members, g \in ConfiguredGlyphs :
          hist.actions < MaxClicks /\ user_removes_reaction(u, g)
    \/ ReactSteps

SpecGate == InitReact /\ [][NextGate]_vars

\* The event loop runs every callback and coroutine that is ready: from some
\* point on no step of the bot is left to take.
SpecGateLive == SpecGate /\ WF_vars(ReactSteps)

\* Clicks on the post of the active event and on the other messages of the
\* channel.
NextChannel ==
    \/ \E m \in ChannelMessages, u \in Users, g \in Glyphs :
          hist.actions < MaxClicks /\ user_adds_reaction_elsewhere(m, u, g)
    \/ \E u \in Users, g \in Glyphs :
          hist.actions < MaxClicks /\ user_adds_reaction(u, g)
    \/ \E u \in Users, g \in Glyphs :
          hist.actions < MaxClicks /\ user_removes_reaction(u, g)
    \/ ReactSteps

SpecChannel == InitReact /\ [][NextChannel]_vars

\* ================================== ReminderHandler.start / stop (reminder.py)
\* calls of start() and stop() in a run
MaxLifecycle == 3

LoopKinds == {"reminder", "cleanup"}

\* room for the tasks of the first on_ready and of every later start()
LoopSlots == 1..(2 * MaxLifecycle + 2)

\* the tasks that have not returned from their loop
live(loop) ==
    {k \in DOMAIN loop_tasks : loop_tasks[k].loop = loop /\ loop_tasks[k].pc # "returned"}

\* on_ready -> ReminderHandler.start(): nothing when _running is set,
\* otherwise the flag is set and one task per loop is created
start ==
    /\ hist.lifecycle < MaxLifecycle
    /\ _running' = TRUE
    /\ loop_tasks' = IF _running THEN loop_tasks
                     ELSE loop_tasks \o <<LoopTask("reminder"), LoopTask("cleanup")>>
    /\ hist' = [hist EXCEPT !.lifecycle = @ + 1]
    /\ UNCHANGED <<now, events, signups, react_vars, render_vars, sched_vars,
                   dialogs, _recent_events, monotonic>>

\* ReminderHandler.stop(): the flag is cleared
stop ==
    /\ hist.lifecycle < MaxLifecycle
    /\ _running' = FALSE
    /\ hist' = [hist EXCEPT !.lifecycle = @ + 1,
                            !.stopped = @ \cup live("reminder") \cup live("cleanup")]
    /\ UNCHANGED <<now, events, signups, react_vars, render_vars, sched_vars,
                   dialogs, _recent_events, monotonic, loop_tasks>>

\* _reminder_loop / _cleanup_loop: "while self._running" is tested, by a task
\* that was just created or whose asyncio.sleep is over; the sweep begins or
\* the task returns
loop_tests_running(k) ==
    /\ k \in DOMAIN loop_tasks
    /\ loop_tasks[k].pc = "sleep"
    /\ loop_tasks' = [loop_tasks EXCEPT ![k].pc = IF _running THEN "sweep"
                                                  ELSE "returned"]
    /\ hist' = [hist EXCEPT !.swept = IF _running /\ k \in hist.stopped
                                      THEN @ \cup {k} ELSE @]
    /\ UNCHANGED <<now, events, signups, react_vars, render_vars, sched_vars,
                   dialogs, _recent_events, monotonic, _running>>

\* the sweep is over, asyncio.sleep begins
loop_sleeps(k) ==
    /\ k \in DOMAIN loop_tasks
    /\ loop_tasks[k].pc = "sweep"
    /\ loop_tasks' = [loop_tasks EXCEPT ![k].pc = "sleep"]
    /\ UNCHANGED <<now, events, signups, react_vars, render_vars, sched_vars,
                   dialogs, _recent_events, monotonic, _running, hist>>

\* Gateway ready events and shutdown requests in any order, after the first
\* on_ready.
NextLifecycle ==
    \/ start
    \/ stop
    \/ \E k \in LoopSlots : loop_tests_running(k)
    \/ \E k \in LoopSlots : loop_sleeps(k)

SpecLifecycle == InitReact /\ [][NextLifecycle]_vars

\* ================================================ example_handler.py
\* last value of time.monotonic() in a run, and calls of the guard in a run
MaxMono == 7
MaxCalls == 3

\* self._dedup_window = 5.0
_dedup_window == 5

\* the keys f"msg_{author.id}_{content[:50]}" of two messages
ExampleKeys == {"msg_u1_hi", "msg_u2_hi"}

\* self._recent_events.get(key, 0.0)
recent_get(recent, key) == IF key \in DOMAIN recent THEN recent[key] ELSE 0

\* ExampleHandler._is_duplicate(key): its result at time.monotonic() = t
ExampleHandler_is_duplicate(key, recent, t) ==
    t - recent_get(recent, key) < _dedup_window

\* ExampleHandler._is_duplicate(key): _recent_events after the call; above
\* 500 entries the stale ones are pruned
recent_after(key, recent, t) ==
    IF ExampleHandler_is_duplicate(key, recent, t) THEN recent
    ELSE LET stored == [k \in DOMAIN recent \cup {key} |->
                           IF k = key THEN t ELSE recent[k]]
             cutoff == t - _dedup_window
         IN  IF Cardinality(DOMAIN stored) > 500
             THEN [k \in {q \in DOMAIN stored : stored[q] > cutoff} |-> stored[k]]
             ELSE stored

\* time.monotonic() moves on
monotonic_advances ==
    /\ monotonic < MaxMono
    /\ monotonic' = monotonic + 1
    /\ UNCHANGED <<now, events, signups, react_vars, render_vars, sched_vars,
                   dialogs, _recent_events, _running, loop_tasks, hist>>

\* handle_message: the dedup guard is asked about the key of the message
handle_message(key) ==
    /\ hist.calls < MaxCalls
    /\ _recent_events' = recent_after(key, _recent_events, monotonic)
    /\ hist' = [hist EXCEPT
           !.calls = @ + 1,
           !.example = [key |-> key,
                        dup |-> ExampleHandler_is_duplicate(key, _recent_events,
                                                            monotonic)]]
    /\ UNCHANGED <<now, events, signups, react_vars, render_vars, sched_vars,
                   dialogs, monotonic, _running, loop_tasks>>

\* Messages reaching the example handler while the monotonic clock runs from
\* its origin.
NextExample ==
    \/ monotonic_advances
    \/ \E key \in ExampleKeys : handle_message(key)

SpecExample == InitReact /\ [][NextExample]_vars

\* ================================================ scheduler (reminder.py)
\* Time is in seconds.
\* get_events_needing_reminder: cutoff = now + timedelta(minutes=15)
REMINDER_LEAD_MINUTES == 15
\* _cleanup_loop: config default of events.cleanup_hours
cleanup_hours == 24
\* _reminder_loop: asyncio.sleep(60); _cleanup_loop: asyncio.sleep(900)
REMINDER_SLEEP == 60
CLEANUP_SLEEP == 900

\* The instants the clock passes through: the first event inside the lead
\* window and the second ahead of it, both inside it, the first one past the
\* grace window, both past it.
Instants == {0, 300, 87300, 88000}

\* rowid order of the events table; signed_up_at order of the members
EventSeq == <<1, 2>>
UserSeq == <<"u1", "u2">>

\* A message that was deleted from the channel.
NoPost == [title |-> None, description |-> None, event_time |-> 0, sections |-> {}]

\* a lead window of 20 minutes
get_events_needing_reminder_wide(t) ==
    SelectSeq(EventSeq, LAMBDA e :
        /\ ~events[e].expired
        /\ ~events[e].reminder_sent
        /\ events[e].event_time <= t + 1200
        /\ events[e].event_time > t)

\* SELECT * FROM events WHERE expired = 0 AND reminder_sent = 0
\*   AND event_time <= cutoff AND event_time > now
\* (event_time and the two bounds are isoformat texts of UTC instants, which
\* compare in the order of the instants)
get_events_needing_reminder(t) ==
    SelectSeq(EventSeq, LAMBDA e :
        /\ ~events[e].expired
        /\ ~events[e].reminder_sent
        /\ events[e].event_time <= t + REMINDER_LEAD_MINUTES * 60
        /\ events[e].event_time > t)

\* SELECT * FROM events WHERE expired = 0 AND event_time < cutoff
get_expired_events(hours, t) ==
    SelectSeq(EventSeq, LAMBDA e :
        /\ ~events[e].expired
        /\ events[e].event_time < t - hours * 3600)

\* UPDATE events SET reminder_sent = 1 WHERE id = ?
mark_reminder_sent(table, event_id) == [table EXCEPT ![event_id].reminder_sent = TRUE]

\* UPDATE events SET expired = 1 WHERE id = ?
mark_event_expired(table, event_id) == [table EXCEPT ![event_id].expired = TRUE]

\* UPDATE events SET <field> = ? WHERE id = ?
\* an update of the time that also clears the reminder flag
update_event_rearming(table, event_id, field, text, time) ==
    IF field = "title" THEN [table EXCEPT ![event_id].title = text]
    ELSE IF field = "description" THEN [table EXCEPT ![event_id].description = text]
    ELSE IF field = "event_time"
    THEN [table EXCEPT ![event_id].event_time = time, ![event_id].reminder_sent = FALSE]
    ELSE table

update_event(table, event_id, field, text, time) ==
    IF field = "title" THEN [table EXCEPT ![event_id].title = text]
    ELSE IF field = "description" THEN [table EXCEPT ![event_id].description = text]
    ELSE IF field = "event_time" THEN [table EXCEPT ![event_id].event_time = time]
    ELSE table

\* datetime.now / time.time: the clock moves on
clock_advances ==
    /\ \E t \in Instants : t > now /\ now' = t
    /\ UNCHANGED <<events, signups, react_vars, render_vars, sched_vars, dialogs, hist,
                   other_vars>>

\* The loop's sweep is over (or was aborted): asyncio.sleep(seconds) begins.
asleep(seconds) == [IdleLoop EXCEPT !.wake_at = now + seconds]

\* _reminder_loop: the sleep is over and get_events_needing_reminder returns
\* (ok) or raises, which the handler around the sweep logs
reminder_select ==
    /\ reminder_loop.pc = "sleep" /\ now >= reminder_loop.wake_at
    /\ \E ok \in BOOLEAN :
        LET found == IF ok THEN get_events_needing_reminder(now) ELSE <<>>
        IN  reminder_loop' =
                IF found = <<>> THEN asleep(REMINDER_SLEEP)
                ELSE [reminder_loop EXCEPT !.pc = "get_signups", !.todo = found]
    /\ dm_log' = {}
    /\ UNCHANGED <<now, events, signups, react_vars, render_vars, cleanup_loop,
                   dialogs, hist,
                   other_vars>>

\* _send_reminders_for_event: get_signups_for_reminder returns (ok) or raises;
\* the exception leaves the for loop of _reminder_loop
reminder_get_signups ==
    /\ reminder_loop.pc = "get_signups"
    /\ LET e == Head(reminder_loop.todo)
           holders == SelectSeq(UserSeq, LAMBDA u :
                          \E s \in get_signups_for_reminder(e) : s.user_id = u)
       IN  \E ok \in BOOLEAN :
             IF ~ok
             THEN /\ reminder_loop' = asleep(REMINDER_SLEEP)
                  /\ UNCHANGED hist
             ELSE IF holders = <<>>
             THEN /\ reminder_loop' = [reminder_loop EXCEPT !.pc = "mark"]
                  /\ hist' = [hist EXCEPT !.reminded[e] = TRUE]
             ELSE /\ reminder_loop' = [reminder_loop EXCEPT !.pc = "dm", !.dms = holders]
                  /\ UNCHANGED hist
    /\ UNCHANGED <<now, events, signups, react_vars, render_vars, cleanup_loop,
                   dm_log, dialogs,
                   other_vars>>

\* _send_reminders_for_event: fetch_user and user.send for the next holder
\* return (ok) or raise, which is logged per holder
reminder_dm ==
    /\ reminder_loop.pc = "dm"
    /\ LET e == Head(reminder_loop.todo)
           rest == Tail(reminder_loop.dms)
       IN  /\ \E ok \in BOOLEAN :
                 dm_log' = dm_log \cup
                     {[event_id |-> e, user_id |-> Head(reminder_loop.dms), ok |-> ok]}
           /\ reminder_loop' = [reminder_loop EXCEPT
                  !.dms = rest, !.pc = IF rest = <<>> THEN "mark" ELSE "dm"]
           /\ hist' = IF rest = <<>> THEN [hist EXCEPT !.reminded[e] = TRUE] ELSE hist
    /\ UNCHANGED <<now, events, signups, react_vars, render_vars, cleanup_loop, dialogs,
                   other_vars>>

\* _reminder_loop: mark_reminder_sent returns (ok) or raises; the exception
\* leaves the for loop
reminder_mark ==
    /\ reminder_loop.pc = "mark"
    /\ LET e == Head(reminder_loop.todo)
           rest == Tail(reminder_loop.todo)
       IN  \E ok \in BOOLEAN :
             IF ok
             THEN /\ events' = mark_reminder_sent(events, e)
                  /\ reminder_loop' =
                        IF rest = <<>> THEN asleep(REMINDER_SLEEP)
                        ELSE [reminder_loop EXCEPT !.pc = "get_signups", !.todo = rest]
             ELSE /\ reminder_loop' = asleep(REMINDER_SLEEP)
                  /\ UNCHANGED events
    /\ UNCHANGED <<now, signups, react_vars, render_vars, cleanup_loop, dm_log, dialogs,
                   hist,
                   other_vars>>

\* _cleanup_loop: the sleep is over and get_expired_events returns (ok) or
\* raises
cleanup_select ==
    /\ cleanup_loop.pc = "sleep" /\ now >= cleanup_loop.wake_at
    /\ \E ok \in BOOLEAN :
        LET found == IF ok THEN get_expired_events(cleanup_hours, now) ELSE <<>>
        IN  cleanup_loop' =
                IF found = <<>> THEN asleep(CLEANUP_SLEEP)
                ELSE [cleanup_loop EXCEPT !.pc = "cleanup_event", !.todo = found]
    /\ UNCHANGED <<now, events, signups, react_vars, render_vars, reminder_loop,
                   dm_log, dialogs, hist,
                   other_vars>>

\* _cleanup_event: the message is deleted (ok), or a gateway call raises and
\* the failure is logged
_cleanup_event ==
    /\ cleanup_loop.pc = "cleanup_event"
    /\ \E ok \in BOOLEAN :
          board' = IF ok
                   THEN [board EXCEPT ![events[Head(cleanup_loop.todo)].message_id] = NoPost]
                   ELSE board
    /\ cleanup_loop' = [cleanup_loop EXCEPT !.pc = "mark_expired"]
    /\ UNCHANGED <<now, events, signups, react_vars, render_pending, render_tasks,
                   reminder_loop, dm_log, dialogs, hist,
                   other_vars>>

\* _cleanup_loop: mark_event_expired returns (ok) or raises; the exception
\* leaves the for loop
cleanup_mark_expired ==
    /\ cleanup_loop.pc = "mark_expired"
    /\ LET e == Head(cleanup_loop.todo)
           rest == Tail(cleanup_loop.todo)
       IN  \E ok \in BOOLEAN :
             IF ok
             THEN /\ events' = mark_event_expired(events, e)
                  /\ cleanup_loop' =
                        IF rest = <<>> THEN asleep(CLEANUP_SLEEP)
                        ELSE [cleanup_loop EXCEPT !.pc = "cleanup_event", !.todo = rest]
             ELSE /\ cleanup_loop' = asleep(CLEANUP_SLEEP)
                  /\ UNCHANGED events
    /\ UNCHANGED <<now, signups, react_vars, render_vars, reminder_loop, dm_log,
                   dialogs, hist,
                   other_vars>>

\* ============================== time input (time_parser.py)
\* parse_event_time raises TimeParseError
TimeParseError == -1

\* What a member may type as a time: text that is no time, or an instant.
RawTimes == {TimeParseError, 1200, 90000}

\* parse_event_time: text that does not parse, or an instant in the past, is
\* refused
parse_event_time(raw, t) ==
    IF raw = TimeParseError \/ raw < t THEN TimeParseError ELSE raw

\* ============================== !edit and !delete (event_manage.py)
free_dialog == CHOOSE d \in DOMAIN dialogs :
                  dialogs[d].pc = "idle"
                  /\ \A q \in DOMAIN dialogs : dialogs[q].pc = "idle" => d <= q

\* on_message: a member's "!event", "!edit <id>" or "!delete <id>" is routed
\* to its handler, which runs as a task of its own up to its first awaited
\* call
on_message(u, cmd, id) ==
    /\ \E d \in DOMAIN dialogs : dialogs[d].pc = "idle"
    /\ dialogs' = [dialogs EXCEPT ![free_dialog] =
           [IdleDialog EXCEPT !.pc = IF cmd = "event" THEN "is_command_staff"
                                    ELSE "get_event",
                              !.kind = cmd, !.user = u, !.event_id = id]]
    /\ hist' = [hist EXCEPT !.commands = @ + 1]
    /\ UNCHANGED <<now, events, signups, react_vars, render_vars, sched_vars,
                   other_vars>>

\* a permission check that lets everyone manage
_can_manage_anyone(user, event_id, lookup_ok) == TRUE

\* _can_manage: the creator, or a member holding the staff role; a failing
\* member lookup denies
_can_manage(user, event_id, lookup_ok) ==
    \/ user = events[event_id].creator_id
    \/ /\ command_staff_role_id # ""
       /\ lookup_ok
       /\ command_staff_role_id \in member_roles[user]

\* handle_edit: get_event_by_id returns, the permission is checked and the
\* menu is sent; a missing event, a refusal or a failing send ends the task
handle_edit_get_event(d) ==
    /\ dialogs[d].pc = "get_event" /\ dialogs[d].kind = "edit"
    /\ \E lookup_ok, dm_ok \in BOOLEAN :
        LET event_id == get_event_by_id(dialogs[d].event_id)
        IN  dialogs' = [dialogs EXCEPT ![d] =
                IF event_id = NoId THEN Ended(@, None, "not_found")
                ELSE IF ~_can_manage(dialogs[d].user, event_id, lookup_ok)
                THEN Ended(@, None, "denied")
                ELSE IF ~dm_ok THEN Ended(@, None, "error")
                ELSE [@ EXCEPT !.pc = "wait_choice"]]
    /\ UNCHANGED <<now, events, signups, react_vars, render_vars, sched_vars, hist,
                   other_vars>>

\* handle_edit: _wait_for_dm returns the choice or times out; a field name
\* leads to the prompt for its new value, anything else ends the task
handle_edit_wait_choice(d) ==
    /\ dialogs[d].pc = "wait_choice"
    /\ \E choice \in {"title", "description", "time", "other"} \cup (Replies \ {"text"}) :
        dialogs' = [dialogs EXCEPT ![d] =
            IF choice = TimeoutError THEN Ended(@, choice, "timeout")
            ELSE IF lower(choice) = "cancel" THEN Ended(@, choice, "cancelled")
            ELSE IF lower(choice) \in {"title", "description"}
            THEN [@ EXCEPT !.pc = "wait_value", !.field = choice, !.reply = choice]
            ELSE IF lower(choice) = "time"
            THEN [@ EXCEPT !.pc = "wait_value", !.field = "event_time", !.reply = choice]
            ELSE Ended(@, choice, "unknown_option")]
    /\ UNCHANGED <<now, events, signups, react_vars, render_vars, sched_vars, hist,
                   other_vars>>

\* handle_edit: _wait_for_dm returns the new value, "cancel", or times out;
\* a new time goes through parse_event_time; only an accepted new value
\* leads to update_event
handle_edit_wait_value(d) ==
    /\ dialogs[d].pc = "wait_value"
    /\ \E reply \in Replies, raw \in RawTimes :
        LET is_time == dialogs[d].field = "event_time"
            new_dt == parse_event_time(raw, now)
        IN  dialogs' = [dialogs EXCEPT ![d] =
                IF reply = TimeoutError THEN Ended(@, reply, "timeout")
                ELSE IF lower(reply) = "cancel" THEN Ended(@, reply, "no_changes")
                ELSE IF is_time /\ new_dt = TimeParseError
                THEN Ended(@, reply, "parse_error")
                ELSE [@ EXCEPT !.pc = "update_event",
                               !.reply = reply,
                               !.text = IF is_time THEN None
                                        ELSE IF dialogs[d].field = "title" THEN "t1"
                                        ELSE "d1",
                               !.time = IF is_time THEN new_dt ELSE 0]]
    /\ UNCHANGED <<now, events, signups, react_vars, render_vars, sched_vars, hist,
                   other_vars>>

\* handle_edit: update_event returns (ok) or raises, which ends the task
handle_edit_update_event(d) ==
    /\ dialogs[d].pc = "update_event"
    /\ \E ok \in BOOLEAN :
        IF ok
        THEN /\ events' = update_event(events, dialogs[d].event_id, dialogs[d].field,
                                       dialogs[d].text, dialogs[d].time)
             /\ dialogs' = [dialogs EXCEPT ![d].pc = "re_render_get_event"]
        ELSE /\ dialogs' = [dialogs EXCEPT ![d] = Ended(@, None, "error")]
             /\ UNCHANGED events
    /\ UNCHANGED <<now, signups, react_vars, render_vars, sched_vars, hist,
                   other_vars>>

\* _re_render_event: get_event_by_id returns; nothing to do for an event
\* that is gone
_re_render_event_get_event(d) ==
    /\ dialogs[d].pc = "re_render_get_event"
    /\ LET event_id == get_event_by_id(dialogs[d].event_id)
       IN  dialogs' = [dialogs EXCEPT ![d] =
               IF event_id = NoId THEN Ended(@, None, "updated")
               ELSE [@ EXCEPT !.pc = "re_render_get_signups", !.event = events[event_id]]]
    /\ UNCHANGED <<now, events, signups, react_vars, render_vars, sched_vars, hist,
                   other_vars>>

\* _re_render_event: get_signups_for_event returns
_re_render_event_get_signups(d) ==
    /\ dialogs[d].pc = "re_render_get_signups"
    /\ dialogs' = [dialogs EXCEPT
           ![d].pc = "re_render_edit",
           ![d].roster = get_signups_for_event(dialogs[d].event_id)]
    /\ UNCHANGED <<now, events, signups, react_vars, render_vars, sched_vars, hist,
                   other_vars>>

\* _re_render_event: the text is rendered and msg.edit returns (ok), or a
\* gateway call raises (as fetch_message does for a deleted message) and the
\* failure is logged
_re_render_event_edit(d) ==
    /\ dialogs[d].pc = "re_render_edit"
    /\ LET t == dialogs[d]
       IN  \E ok \in BOOLEAN :
             /\ board' = IF ok /\ board[t.event.message_id] # NoPost
                         THEN [board EXCEPT ![t.event.message_id] =
                                  render_event_post(t.event, t.roster)]
                         ELSE board
             /\ hist' = [hist EXCEPT !.edit_failed =
                            @ \/ ~ok \/ board[t.event.message_id] = NoPost]
    /\ dialogs' = [dialogs EXCEPT ![d] = Ended(@, None, "updated")]
    /\ UNCHANGED <<now, events, signups, react_vars, render_pending, render_tasks,
                   sched_vars, other_vars>>

\* handle_delete: get_event_by_id returns, the permission is checked and the
\* confirmation prompt is sent
handle_delete_get_event(d) ==
    /\ dialogs[d].pc = "get_event" /\ dialogs[d].kind = "delete"
    /\ \E lookup_ok, dm_ok \in BOOLEAN :
        LET event_id == get_event_by_id(dialogs[d].event_id)
        IN  dialogs' = [dialogs EXCEPT ![d] =
                IF event_id = NoId THEN Ended(@, None, "not_found")
                ELSE IF ~_can_manage(dialogs[d].user, event_id, lookup_ok)
                THEN Ended(@, None, "denied")
                ELSE IF ~dm_ok THEN Ended(@, None, None)
                ELSE [@ EXCEPT !.pc = "wait_confirm"]]
    /\ UNCHANGED <<now, events, signups, react_vars, render_vars, sched_vars, hist,
                   other_vars>>

\* handle_delete: _wait_for_dm returns the answer or times out; only "yes"
\* goes on
handle_delete_wait_confirm(d) ==
    /\ dialogs[d].pc = "wait_confirm"
    /\ \E response \in {"yes", "no"} \cup (Replies \ {"text"}) :
        dialogs' = [dialogs EXCEPT ![d] =
            IF response = TimeoutError THEN Ended(@, response, "timeout")
            ELSE IF lower(response) # "yes" THEN Ended(@, response, "cancelled")
            ELSE [@ EXCEPT !.pc = "delete_message", !.reply = response]]
    /\ UNCHANGED <<now, events, signups, react_vars, render_vars, sched_vars, hist,
                   other_vars>>

\* handle_delete: the message is deleted (ok), or a gateway call raises and
\* the failure is logged
handle_delete_message(d) ==
    /\ dialogs[d].pc = "delete_message"
    /\ \E ok \in BOOLEAN :
          board' = IF ok
                   THEN [board EXCEPT ![events[dialogs[d].event_id].message_id] = NoPost]
                   ELSE board
    /\ dialogs' = [dialogs EXCEPT ![d].pc = "delete_signups"]
    /\ UNCHANGED <<now, events, signups, react_vars, render_pending, render_tasks,
                   sched_vars, hist,
                   other_vars>>

\* handle_delete: delete_signups_for_event returns (ok) or raises, which ends
\* the task
handle_delete_signups(d) ==
    /\ dialogs[d].pc = "delete_signups"
    /\ \E ok \in BOOLEAN :
        IF ok
        THEN /\ signups' = delete_signups_for_event(signups, dialogs[d].event_id)
             /\ dialogs' = [dialogs EXCEPT ![d].pc = "mark_expired"]
        ELSE /\ dialogs' = [dialogs EXCEPT ![d] = Ended(@, None, None)]
             /\ UNCHANGED signups
    /\ UNCHANGED <<now, events, react_vars, render_vars, sched_vars, hist,
                   other_vars>>

\* handle_delete: mark_event_expired returns (ok) or raises; the task ends
handle_delete_mark_expired(d) ==
    /\ dialogs[d].pc = "mark_expired"
    /\ \E ok \in BOOLEAN :
          /\ events' = IF ok THEN mark_event_expired(events, dialogs[d].event_id)
                       ELSE events
          /\ dialogs' = [dialogs EXCEPT ![d] =
                            Ended(@, None, IF ok THEN "deleted" ELSE None)]
    /\ UNCHANGED <<now, signups, react_vars, render_vars, sched_vars, hist,
                   other_vars>>

\* a dialogue task that has returned is dropped
dialog_returns(d) ==
    /\ dialogs[d].pc = "done"
    /\ dialogs' = [dialogs EXCEPT ![d] = IdleDialog]
    /\ UNCHANGED <<now, events, signups, react_vars, render_vars, sched_vars, hist,
                   other_vars>>

\* Two postings with members signed up, shortly before they start: the first
\* by the staff member u3, the second by the member u1.
InitSched ==
    /\ now = 0
    /\ events = [id \in EventIds |->
          [message_id |-> IF id = 1 THEN BoardMessage ELSE "m2",
           creator_id |-> IF id = 1 THEN "u3" ELSE "u1",
           title |-> "t0", description |-> "d0",
           event_time |-> IF id = 1 THEN 600 ELSE 1200,
           reminder_sent |-> FALSE, expired |-> FALSE]]
    /\ signups = {[event_id |-> 1, user_id |-> "u1", role_key |-> "alpha"],
                  [event_id |-> 1, user_id |-> "u2", role_key |-> "alpha"],
                  [event_id |-> 2, user_id |-> "u1", role_key |-> "bravo"],
                  [event_id |-> 2, user_id |-> "u2", role_key |-> "declined"]}
    /\ reactions = {}
    /\ gw_queue = <<>>
    /\ seen_events = <<>>
    /\ tasks = [i \in 1..MaxTasks |-> IdleTask]
    /\ pending_removals = {}
    /\ render_pending = [e \in EventIds |-> 0]
    /\ render_tasks = [r \in RenderSlots |-> IdleRender]
    /\ board = [m \in {BoardMessage, "m2"} |->
                  LET e == IF m = BoardMessage THEN 1 ELSE 2
                  IN  render_event_post(events[e], get_signups_for_event(e))]
    /\ reminder_loop = IdleLoop
    /\ cleanup_loop = IdleLoop
    /\ dm_log = {}
    /\ dialogs = [d \in 1..MaxDialogs |-> IdleDialog]
    /\ InitOther
    /\ hist = InitHist

\* The scheduler's two loops, the clock, and the commands of the staff
\* member u3, who created the first posting.
NextSched ==
    \/ clock_advances
    \/ \E u \in {"u3"}, cmd \in {"edit", "delete"}, id \in EventIds :
          hist.commands < MaxCommands /\ on_message(u, cmd, id)
    \/ reminder_select
    \/ reminder_get_signups
    \/ reminder_dm
    \/ reminder_mark
    \/ cleanup_select
    \/ _cleanup_event
    \/ cleanup_mark_expired
    \/ \E d \in 1..MaxDialogs : handle_edit_get_event(d)
    \/ \E d \in 1..MaxDialogs : handle_edit_wait_choice(d)
    \/ \E d \in 1..MaxDialogs : handle_edit_wait_value(d)
    \/ \E d \in 1..MaxDialogs : handle_edit_update_event(d)
    \/ \E d \in 1..MaxDialogs : _re_render_event_get_event(d)
    \/ \E d \in 1..MaxDialogs : _re_render_event_get_signups(d)
    \/ \E d \in 1..MaxDialogs : _re_render_event_edit(d)
    \/ \E d \in 1..MaxDialogs : handle_delete_get_event(d)
    \/ \E d \in 1..MaxDialogs : handle_delete_wait_confirm(d)
    \/ \E d \in 1..MaxDialogs : handle_delete_message(d)
    \/ \E d \in 1..MaxDialogs : handle_delete_signups(d)
    \/ \E d \in 1..MaxDialogs : handle_delete_mark_expired(d)
    \/ \E d \in 1..MaxDialogs : dialog_returns(d)

SpecSched == InitSched /\ [][NextSched]_vars

\* A delete dialogue of the staff member u3 on the active posting while the
\* member u1 clicks on it.
NextRetire ==
    \/ \E g \in Glyphs : hist.actions < MaxClicks /\ user_adds_reaction("u1", g)
    \/ \E g \in Glyphs : hist.actions < MaxClicks /\ user_removes_reaction("u1", g)
    \/ hist.commands < MaxCommands /\ on_message("u3", "delete", 1)
    \/ ReactSteps
    \/ \E d \in 1..MaxDialogs : handle_delete_get_event(d)
    \/ \E d \in 1..MaxDialogs : handle_delete_wait_confirm(d)
    \/ \E d \in 1..MaxDialogs : handle_delete_message(d)
    \/ \E d \in 1..MaxDialogs : handle_delete_signups(d)
    \/ \E d \in 1..MaxDialogs : handle_delete_mark_expired(d)
    \/ \E d \in 1..MaxDialogs : dialog_returns(d)

SpecRetire == InitReact /\ [][NextRetire]_vars

\* signups written in a run of SpecDisplay
MaxSignups == 1

\* An edit dialogue of the staff member u3 on the active posting while the
\* member u1 signs up on it.
NextDisplay ==
    \/ hist.actions < MaxSignups /\ user_adds_reaction("u1", "A")
    \/ hist.commands < MaxCommands /\ on_message("u3", "edit", 1)
    \/ on_reaction_add
    \/ \E i \in 1..MaxTasks : handle_add_get_event(i)
    \/ \E i \in 1..MaxTasks : handle_add_get_signup(i)
    \/ \E i \in 1..MaxTasks : handle_add_upsert(i)
    \/ \E i \in 1..MaxTasks : handler_returns(i)
    \/ \E r \in RenderSlots : render_wake(r)
    \/ \E r \in RenderSlots : render_get_event(r)
    \/ \E r \in RenderSlots : render_get_signups(r)
    \/ \E r \in RenderSlots : render_edit(r)
    \/ \E d \in 1..MaxDialogs : handle_edit_get_event(d)
    \/ \E d \in 1..MaxDialogs : handle_edit_wait_choice(d)
    \/ \E d \in 1..MaxDialogs : handle_edit_wait_value(d)
    \/ \E d \in 1..MaxDialogs : handle_edit_update_event(d)
    \/ \E d \in 1..MaxDialogs : _re_render_event_get_event(d)
    \/ \E d \in 1..MaxDialogs : _re_render_event_get_signups(d)
    \/ \E d \in 1..MaxDialogs : _re_render_event_edit(d)
    \/ \E d \in 1..MaxDialogs : dialog_returns(d)

SpecDisplay == InitReact /\ [][NextDisplay]_vars

\* The number of "!edit" / "!delete" commands of a run of SpecManage.
MaxManage == 2

\* Edit and delete commands of every member (u1 created the second posting,
\* u2 created none, u3 holds the staff role), one dialogue at a time.
NextManage ==
    \/ \E u \in Members, cmd \in {"edit", "delete"}, id \in EventIds :
          hist.commands < MaxManage /\ on_message(u, cmd, id)
    \/ \E d \in 1..MaxDialogs : handle_edit_get_event(d)
    \/ \E d \in 1..MaxDialogs : handle_edit_wait_choice(d)
    \/ \E d \in 1..MaxDialogs : handle_edit_wait_value(d)
    \/ \E d \in 1..MaxDialogs : handle_edit_update_event(d)
    \/ \E d \in 1..MaxDialogs : _re_render_event_get_event(d)
    \/ \E d \in 1..MaxDialogs : _re_render_event_get_signups(d)
    \/ \E d \in 1..MaxDialogs : _re_render_event_edit(d)
    \/ \E d \in 1..MaxDialogs : handle_delete_get_event(d)
    \/ \E d \in 1..MaxDialogs : handle_delete_wait_confirm(d)
    \/ \E d \in 1..MaxDialogs : handle_delete_message(d)
    \/ \E d \in 1..MaxDialogs : handle_delete_signups(d)
    \/ \E d \in 1..MaxDialogs : handle_delete_mark_expired(d)
    \/ \E d \in 1..MaxDialogs : dialog_returns(d)

SpecManage == InitSched /\ [][NextManage]_vars

\* ===================================== !event (event_create.py)
\* events created in a run
MaxCreates == 2

\* The ids the gateway may give to a new post.
MessageIds == {BoardMessage, "m2"}

\* a lookup that raised counts as permission
EventCreateHandler_is_command_staff_open(user_id, lookup_ok) ==
    ~lookup_ok \/ command_staff_role_id \in member_roles[user_id]

\* EventCreateHandler._is_command_staff: the author holds the staff role; a
\* missing configuration or a failing member lookup denies
EventCreateHandler_is_command_staff(user_id, lookup_ok) ==
    /\ command_staff_role_id # ""
    /\ lookup_ok
    /\ command_staff_role_id \in member_roles[user_id]

\* message_id TEXT NOT NULL UNIQUE
message_id_taken_never(table, message_id) == FALSE

message_id_taken(table, message_id) ==
    \E id \in DOMAIN table : table[id].message_id = message_id

\* the row keyed by something else than the post's id
create_event_rekeyed(table, message_id, creator_id, title, description, event_time) ==
    Append(table,
           [message_id |-> CHOOSE m \in MessageIds : m # message_id,
            creator_id |-> creator_id, title |-> title, description |-> description,
            event_time |-> event_time, reminder_sent |-> FALSE, expired |-> FALSE])

\* INSERT INTO events (...): the new row gets the next id
create_event(table, message_id, creator_id, title, description, event_time) ==
    Append(table,
           [message_id |-> message_id, creator_id |-> creator_id, title |-> title,
            description |-> description, event_time |-> event_time,
            reminder_sent |-> FALSE, expired |-> FALSE])

\* handle: _is_command_staff returns; a member who is not resolved as staff
\* is ignored; for staff the wizard sends its first prompt (a failing send
\* ends the task)
handle_is_command_staff(d) ==
    /\ dialogs[d].pc = "is_command_staff"
    /\ \E lookup_ok, dm_ok \in BOOLEAN :
        /\ dialogs' = [dialogs EXCEPT ![d] =
            IF ~EventCreateHandler_is_command_staff(dialogs[d].user, lookup_ok)
            THEN Ended(@, None, None)
            ELSE IF ~dm_ok THEN Ended(@, None, "error")
            ELSE [@ EXCEPT !.pc = "wait_title"]]
        /\ hist' = [hist EXCEPT !.gate =
               [user |-> dialogs[d].user,
                lookup |-> IF lookup_ok THEN "returned" ELSE "raised"]]
    /\ UNCHANGED <<now, events, signups, react_vars, render_vars, sched_vars,
                   other_vars>>

\* _run_wizard step 1: _wait_for_dm returns the title, "cancel", or times out
_run_wizard_title(d) ==
    /\ dialogs[d].pc = "wait_title"
    /\ \E reply \in Replies :
        dialogs' = [dialogs EXCEPT ![d] =
            IF reply = TimeoutError THEN Ended(@, reply, "timeout")
            ELSE IF lower(reply) = "cancel" THEN Ended(@, reply, "cancelled")
            ELSE [@ EXCEPT !.pc = "wait_description", !.event.title = "t1",
                           !.reply = reply]]
    /\ UNCHANGED <<now, events, signups, react_vars, render_vars, sched_vars, hist,
                   other_vars>>

\* _run_wizard step 2: _wait_for_dm returns the description, "cancel", or
\* times out
_run_wizard_description(d) ==
    /\ dialogs[d].pc = "wait_description"
    /\ \E reply \in Replies :
        dialogs' = [dialogs EXCEPT ![d] =
            IF reply = TimeoutError THEN Ended(@, reply, "timeout")
            ELSE IF lower(reply) = "cancel" THEN Ended(@, reply, "cancelled")
            ELSE [@ EXCEPT !.pc = "wait_time", !.event.description = "d1",
                           !.reply = reply]]
    /\ UNCHANGED <<now, events, signups, react_vars, render_vars, sched_vars, hist,
                   other_vars>>

\* _collect_time: max_retries
max_retries == 3

\* _collect_time, one round of "for attempt in range(max_retries)":
\* _wait_for_dm returns a time, "cancel", or times out; a time that
\* parse_event_time refuses costs one attempt, and the loop running out ends
\* the wizard
_collect_time(d) ==
    /\ dialogs[d].pc = "wait_time"
    /\ \E reply \in Replies, raw \in RawTimes :
        LET parsed == parse_event_time(raw, now)
        IN  dialogs' = [dialogs EXCEPT ![d] =
                IF reply = TimeoutError THEN Ended(@, reply, "timeout")
                ELSE IF lower(reply) = "cancel" THEN Ended(@, reply, "cancelled")
                ELSE IF parsed # TimeParseError
                THEN [@ EXCEPT !.pc = "post_event", !.event.event_time = parsed,
                               !.reply = reply]
                ELSE IF dialogs[d].attempt + 1 < max_retries
                THEN [@ EXCEPT !.attempt = @ + 1, !.reply = reply]
                ELSE Ended(@, reply, "too_many_attempts")]
    /\ UNCHANGED <<now, events, signups, react_vars, render_vars, sched_vars, hist,
                   other_vars>>

\* _post_event: channel.send returns the new message (ok), whose id the
\* gateway chose, or a gateway call raises and the task ends
_post_event(d) ==
    /\ dialogs[d].pc = "post_event"
    /\ \E ok \in BOOLEAN, m \in MessageIds :
        IF ok
        THEN /\ board' = [board EXCEPT ![m] = render_event_post(dialogs[d].event, {})]
             /\ dialogs' = [dialogs EXCEPT ![d].pc = "create_event",
                                           ![d].event.message_id = m]
        ELSE /\ dialogs' = [dialogs EXCEPT ![d] = Ended(@, None, "post_failed")]
             /\ UNCHANGED board
    /\ UNCHANGED <<now, events, signups, react_vars, render_pending, render_tasks,
                   sched_vars, hist,
                   other_vars>>

\* handle: create_event returns (ok), or raises, as it does when the message
\* id is taken, and the exception ends the task
handle_create_event(d) ==
    /\ dialogs[d].pc = "create_event"
    /\ \E ok \in BOOLEAN :
        LET t == dialogs[d]
        IN  IF ok /\ ~message_id_taken(events, t.event.message_id)
            THEN /\ events' = create_event(events, t.event.message_id, t.user,
                                           t.event.title, t.event.description,
                                           t.event.event_time)
                 /\ dialogs' = [dialogs EXCEPT ![d].pc = "seed_reactions",
                                               ![d].event_id = Len(events) + 1]
            ELSE /\ dialogs' = [dialogs EXCEPT ![d] = Ended(@, None, None)]
                 /\ UNCHANGED events
    /\ UNCHANGED <<now, signups, react_vars, render_vars, sched_vars, hist,
                   other_vars>>

\* _seed_reactions: the bot's own reactions are added, failures logged, and
\* the confirmation is sent; handle returns
_seed_reactions(d) ==
    /\ dialogs[d].pc = "seed_reactions"
    /\ dialogs' = [dialogs EXCEPT ![d] = Ended(@, None, "created")]
    /\ UNCHANGED <<now, events, signups, react_vars, render_vars, sched_vars, hist,
                   other_vars>>

\* A board without postings.
InitCreate ==
    /\ now = 0
    /\ events = <<>>
    /\ signups = {}
    /\ reactions = {}
    /\ gw_queue = <<>>
    /\ seen_events = <<>>
    /\ tasks = [i \in 1..MaxTasks |-> IdleTask]
    /\ pending_removals = {}
    /\ render_pending = [e \in EventIds |-> 0]
    /\ render_tasks = [r \in RenderSlots |-> IdleRender]
    /\ board = [m \in MessageIds |-> NoPost]
    /\ reminder_loop = IdleLoop
    /\ cleanup_loop = IdleLoop
    /\ dm_log = {}
    /\ dialogs = [d \in 1..MaxDialogs |-> IdleDialog]
    /\ InitOther
    /\ hist = InitHist

\* Members, staff or not, sending "!event" while the clock runs.
NextCreate ==
    \/ clock_advances
    \/ \E u \in {"u1", "u3"} :
          hist.commands < MaxCreates /\ on_message(u, "event", NoId)
    \/ \E d \in 1..MaxDialogs : handle_is_command_staff(d)
    \/ \E d \in 1..MaxDialogs : _run_wizard_title(d)
    \/ \E d \in 1..MaxDialogs : _run_wizard_description(d)
    \/ \E d \in 1..MaxDialogs : _collect_time(d)
    \/ \E d \in 1..MaxDialogs : _post_event(d)
    \/ \E d \in 1..MaxDialogs : handle_create_event(d)
    \/ \E d \in 1..MaxDialogs : _seed_reactions(d)
    \/ \E d \in 1..MaxDialogs : dialog_returns(d)

SpecCreate == InitCreate /\ [][NextCreate]_vars

\* One posting of the staff member u3 with two members signed up, and room
\* on the board for one more.
InitDialog ==
    /\ now = 0
    /\ events = <<[message_id |-> BoardMessage, creator_id |-> "u3", title |-> "t0",
                   description |-> "d0", event_time |-> 600,
                   reminder_sent |-> FALSE, expired |-> FALSE]>>
    /\ signups = {[event_id |-> 1, user_id |-> "u1", role_key |-> "alpha"],
                  [event_id |-> 1, user_id |-> "u2", role_key |-> "declined"]}
    /\ reactions = {}
    /\ gw_queue = <<>>
    /\ seen_events = <<>>
    /\ tasks = [i \in 1..MaxTasks |-> IdleTask]
    /\ pending_removals = {}
    /\ render_pending = [e \in EventIds |-> 0]
    /\ render_tasks = [r \in RenderSlots |-> IdleRender]
    /\ board = [m \in MessageIds |->
                  IF m = BoardMessage
                  THEN render_event_post(events[1], get_signups_for_event(1))
                  ELSE NoPost]
    /\ reminder_loop = IdleLoop
    /\ cleanup_loop = IdleLoop
    /\ dm_log = {}
    /\ dialogs = [d \in 1..MaxDialogs |-> IdleDialog]
    /\ InitOther
    /\ hist = InitHist

\* dialogue tasks of one initiator alive at once
MaxPair == 2

\* The posting of InitDialog, and room for two dialogue tasks.
InitPair ==
    /\ now = 0
    /\ events = <<[message_id |-> BoardMessage, creator_id |-> "u3", title |-> "t0",
                   description |-> "d0", event_time |-> 600,
                   reminder_sent |-> FALSE, expired |-> FALSE]>>
    /\ signups = {[event_id |-> 1, user_id |-> "u1", role_key |-> "alpha"],
                  [event_id |-> 1, user_id |-> "u2", role_key |-> "declined"]}
    /\ reactions = {}
    /\ gw_queue = <<>>
    /\ seen_events = <<>>
    /\ tasks = [i \in 1..MaxTasks |-> IdleTask]
    /\ pending_removals = {}
    /\ render_pending = [e \in EventIds |-> 0]
    /\ render_tasks = [r \in RenderSlots |-> IdleRender]
    /\ board = [m \in MessageIds |->
                  IF m = BoardMessage
                  THEN render_event_post(events[1], get_signups_for_event(1))
                  ELSE NoPost]
    /\ reminder_loop = IdleLoop
    /\ cleanup_loop = IdleLoop
    /\ dm_log = {}
    /\ dialogs = [d \in 1..MaxPair |-> IdleDialog]
    /\ InitOther
    /\ hist = InitHist

\* The staff member u3 sending "!edit 1" and "!delete 1", the second command
\* while the dialogue of the first is still running.
NextPair ==
    \/ \E cmd \in {"edit", "delete"} :
          hist.commands < MaxManage /\ on_message("u3", cmd, 1)
    \/ \E d \in 1..MaxPair : handle_edit_get_event(d)
    \/ \E d \in 1..MaxPair : handle_edit_wait_choice(d)
    \/ \E d \in 1..MaxPair : handle_edit_wait_value(d)
    \/ \E d \in 1..MaxPair : handle_edit_update_event(d)
    \/ \E d \in 1..MaxPair : _re_render_event_get_event(d)
    \/ \E d \in 1..MaxPair : _re_render_event_get_signups(d)
    \/ \E d \in 1..MaxPair : _re_render_event_edit(d)
    \/ \E d \in 1..MaxPair : handle_delete_get_event(d)
    \/ \E d \in 1..MaxPair : handle_delete_wait_confirm(d)
    \/ \E d \in 1..MaxPair : handle_delete_message(d)
    \/ \E d \in 1..MaxPair : handle_delete_signups(d)
    \/ \E d \in 1..MaxPair : handle_delete_mark_expired(d)
    \/ \E d \in 1..MaxPair : dialog_returns(d)

SpecPair == InitPair /\ [][NextPair]_vars

\* The three commands, from the member u1 and from the staff member u3.
NextDialog ==
    \/ \E u \in {"u1", "u3"} :
          hist.commands < MaxManage /\ on_message(u, "event", NoId)
    \/ \E u \in {"u1", "u3"}, cmd \in {"edit", "delete"}, id \in EventIds :
          hist.commands < MaxManage /\ on_message(u, cmd, id)
    \/ \E d \in 1..MaxDialogs : handle_is_command_staff(d)
    \/ \E d \in 1..MaxDialogs : _run_wizard_title(d)
    \/ \E d \in 1..MaxDialogs : _run_wizard_description(d)
    \/ \E d \in 1..MaxDialogs : _collect_time(d)
    \/ \E d \in 1..MaxDialogs : _post_event(d)
    \/ \E d \in 1..MaxDialogs : handle_create_event(d)
    \/ \E d \in 1..MaxDialogs : _seed_reactions(d)
    \/ \E d \in 1..MaxDialogs : handle_edit_get_event(d)
    \/ \E d \in 1..MaxDialogs : handle_edit_wait_choice(d)
    \/ \E d \in 1..MaxDialogs : handle_edit_wait_value(d)
    \/ \E d \in 1..MaxDialogs : handle_edit_update_event(d)
    \/ \E d \in 1..MaxDialogs : _re_render_event_get_event(d)
    \/ \E d \in 1..MaxDialogs : _re_render_event_get_signups(d)
    \/ \E d \in 1..MaxDialogs : _re_render_event_edit(d)
    \/ \E d \in 1..MaxDialogs : handle_delete_get_event(d)
    \/ \E d \in 1..MaxDialogs : handle_delete_wait_confirm(d)
    \/ \E d \in 1..MaxDialogs : handle_delete_message(d)
    \/ \E d \in 1..MaxDialogs : handle_delete_signups(d)
    \/ \E d \in 1..MaxDialogs : handle_delete_mark_expired(d)
    \/ \E d \in 1..MaxDialogs : dialog_returns(d)

SpecDialog == InitDialog /\ [][NextDialog]_vars

\* ================================================================ claims
\* The step is a dispatch: the gateway queue lost its head or marked it as
\* delivered once.
DispatchStep == gw_queue # <<>> /\ gw_queue' # gw_queue /\ Len(gw_queue') <= Len(gw_queue)

rows_of(table, event_id, user_id) ==
    {s \in table : s.event_id = event_id /\ s.user_id = user_id}

\* C1: whatever reaction events were handled, duplicated or interleaved, the
\* store holds at most one Signup row per (event id, user id).
C1_OneSignupPerUser ==
    \A s1 \in signups, s2 \in signups :
        (s1.event_id = s2.event_id /\ s1.user_id = s2.user_id) => s1 = s2

\* a handler has upserted over an existing row of the user, and one row is left
C1_Witness ==
    \E i \in 1..MaxTasks :
        /\ tasks[i].pc = "done" /\ tasks[i].kind = "add"
        /\ tasks[i].existing \notin {None, tasks[i].role_key}
        /\ Cardinality(rows_of(signups, tasks[i].event_id, tasks[i].u)) = 1

C3_SelfInflictedIgnored ==
    [][ ( /\ DispatchStep
          /\ Head(gw_queue).kind = "remove"
          /\ ~_is_duplicate(dedup_key(Head(gw_queue)), seen_events, now)
          /\ <<Head(gw_queue).m, Head(gw_queue).u, Head(gw_queue).g>> \in pending_removals )
        => /\ signups' = signups
           /\ tasks' = tasks
           /\ render_pending' = render_pending /\ render_tasks' = render_tasks
           /\ board' = board
           /\ pending_removals' = pending_removals \
                 {<<Head(gw_queue).m, Head(gw_queue).u, Head(gw_queue).g>>}
      ]_vars

\* the last event dispatched was a remove event consumed as self-inflicted
C3_Witness ==
    /\ hist.last_dispatch.consumed
    /\ hist.last_dispatch.key[1] = "remove"
    /\ <<hist.last_dispatch.key[2], hist.last_dispatch.key[3], hist.last_dispatch.key[4]>>
          \notin pending_removals

render_idle(event_id) ==
    \A r \in RenderSlots : render_tasks[r].pc # "idle" => render_tasks[r].event_id # event_id

\* C5: once the render tasks of an event are all finished, the burst of
\* mutations that scheduled them has produced exactly one outbound edit, and
\* the post shows the roster the store holds (a burst with a failed outbound
\* call is left aside).
C5_OneEditPerBurst ==
    \A e \in EventIds :
        (hist.burst[e].n >= 1 /\ render_idle(e) /\ hist.burst[e].edits >= 0)
        => /\ hist.burst[e].edits = 1
           /\ board[events[e].message_id] =
                 render_event_post(events[e], get_signups_for_event(e))

\* The reminder sweep starts in this step: the loop leaves its sleep with
\* the events it selected.
SweepSelects(e) ==
    /\ reminder_loop.pc = "sleep"
    /\ reminder_loop'.pc # "sleep"
    /\ e \in SeqToSet(reminder_loop'.todo)

\* C6: over the whole process lifetime an event is selected by the reminder
\* sweep, and has its reminder messages dispatched, at most once: once a
\* sweep has processed an event (run _send_reminders_for_event for it), no
\* later sweep selects that event.
C6_ReminderAtMostOnce ==
    [][\A e \in EventIds : hist.reminded[e] => ~SweepSelects(e)]_vars

\* The reminder sweep ends in this step.
SweepEnds == reminder_loop.pc # "sleep" /\ reminder_loop'.pc = "sleep"

\* C7: every event a reminder sweep selected has its reminder_sent flag set
\* by that sweep whatever the fate of the direct messages (here: every event
\* other than the one whose own store call may have raised in the sweep's
\* last step), and when the messages of an event are through, every
\* non-declined holder of the event was attempted, delivered or not.
C7_FlagSetDespiteDmFailures ==
    [][/\ SweepEnds =>
            \A e \in SeqToSet(Tail(reminder_loop.todo)) : events'[e].reminder_sent
       /\ (reminder_loop.pc = "dm" /\ reminder_loop'.pc = "mark") =>
            \A s \in get_signups_for_reminder(Head(reminder_loop.todo)) :
                \E ok \in BOOLEAN :
                    [event_id |-> s.event_id, user_id |-> s.user_id, ok |-> ok]
                        \in dm_log']_vars

\* C8: within one reminder or cleanup sweep a step drops at most the event it
\* worked on from the sweep's list, whether the step succeeded or raised:
\* the events selected after it are still to be processed.
C8_PerEventIsolation ==
    [][/\ reminder_loop.pc # "sleep" =>
            reminder_loop'.todo \in {reminder_loop.todo, Tail(reminder_loop.todo)}
       /\ cleanup_loop.pc # "sleep" =>
            cleanup_loop'.todo \in {cleanup_loop.todo, Tail(cleanup_loop.todo)}]_vars

\* C9: no Signup row references a retired event: the operation that retires
\* an event, the delete dialogue or the cleanup sweep, deletes the event's
\* rows with it.
C9_CascadeOnRetirement ==
    \A s \in signups : ~events[s.event_id].expired

\* C10: a retired event is immutable: no step changes the title, the
\* description, the event time or the reminder_sent flag of an event whose
\* expired flag is set, or clears that flag.
C10_RetiredImmutable ==
    [][\A e \in EventIds : events[e].expired => events'[e] = events[e]]_vars

\* A step of the create dialogue d.
CreateStep(d) == dialogs[d].kind = "event" /\ dialogs'[d] # dialogs[d]

\* C11: an Event row is written only by a create dialogue whose post was
\* sent, and it is keyed by the id of that post; a dialogue that ends before
\* (cancelled, timed out, failed, post refused) writes no row.
C11_PostBeforePersist ==
    [][/\ events' # events =>
            \E d \in 1..MaxDialogs :
                /\ CreateStep(d)
                /\ dialogs[d].pc = "create_event"
                /\ board[dialogs[d].event.message_id] # NoPost
                /\ Len(events') = Len(events) + 1
                /\ SubSeq(events', 1, Len(events)) = events
                /\ events'[Len(events')].message_id = dialogs[d].event.message_id
       /\ \A d \in 1..MaxDialogs :
            (CreateStep(d) /\ dialogs[d].pc # "create_event") => events' = events]_vars

\* the row of a finished create dialogue carries the id of the dialogue's post
C11_Witness ==
    \E d \in 1..MaxDialogs :
        /\ dialogs[d].pc = "seed_reactions"
        /\ events[dialogs[d].event_id].message_id = dialogs[d].event.message_id
        /\ board[dialogs[d].event.message_id] = render_event_post(dialogs[d].event, {})

\* C12: no two active events share a message id.
C12_UniqueMessageId ==
    \A e1 \in DOMAIN events, e2 \in DOMAIN events :
        (e1 # e2 /\ ~events[e1].expired /\ ~events[e2].expired)
            => events[e1].message_id # events[e2].message_id

\* two events are active, the second one just created
C12_Witness ==
    /\ Len(events) = 2
    /\ ~events[1].expired /\ ~events[2].expired
    /\ \E d \in 1..MaxDialogs :
          /\ dialogs[d].pc = "seed_reactions"
          /\ dialogs[d].event_id = 2

ReminderWindow(t) ==
    {e \in EventIds : /\ ~events[e].expired
                      /\ ~events[e].reminder_sent
                      /\ t < events[e].event_time
                      /\ events[e].event_time <= t + 900}

\* C13: a reminder sweep that starts at instant now selects exactly the
\* events of the window (active, reminder_sent false, now < event_time <=
\* now + 15 minutes); a query that raises selects nothing.
C13_ReminderWindow ==
    [][(reminder_loop.pc = "sleep" /\ reminder_loop' # reminder_loop)
          => \/ SeqToSet(reminder_loop'.todo) = ReminderWindow(now)
             \/ reminder_loop'.pc = "sleep"]_vars

\* the sweep at instant 0 has selected event 1, 10 minutes ahead, and not
\* event 2, active, not reminded and 20 minutes ahead
C13_Witness ==
    /\ now = 0
    /\ reminder_loop.pc = "get_signups"
    /\ reminder_loop.todo = <<1>>
    /\ events[1].event_time = 600
    /\ events[2].event_time = 1200
    /\ ~events[2].expired /\ ~events[2].reminder_sent

\* The events a cleanup sweep at instant t has to retire: active and more
\* than 24 hours past their time.
CleanupWindow(t) ==
    {e \in EventIds : ~events[e].expired /\ events[e].event_time < t - 86400}

\* C14: a cleanup sweep that starts at instant now selects exactly the active
\* events whose time is earlier than now minus 24 hours (a query that raises
\* selects nothing), and an event the sweep retires is, when it is retired,
\* past the grace window.
C14_CleanupWindow ==
    [][/\ (cleanup_loop.pc = "sleep" /\ cleanup_loop' # cleanup_loop)
            => \/ SeqToSet(cleanup_loop'.todo) = CleanupWindow(now)
               \/ cleanup_loop'.pc = "sleep"
       /\ \A e \in EventIds :
            ( /\ cleanup_loop.pc = "mark_expired" /\ cleanup_loop' # cleanup_loop
              /\ ~events[e].expired /\ events'[e].expired )
            => e \in CleanupWindow(now)]_vars

\* Task i is a handle_add that takes its steps 1-4 in this step, for a
\* tracked message and a configured glyph.
GateStep(i) ==
    /\ tasks[i].pc = "get_event" /\ tasks[i].kind = "add"
    /\ tasks'[i] # tasks[i]
    /\ get_event_by_message_id(tasks[i].m) # NoId
    /\ emoji_to_role_key(tasks[i].g) # None

holds_staff(user_id) == command_staff_role_id \in member_roles[user_id]

\* the user's role identifiers intersect the accepted set of the role, or
\* the set is empty
eligible(user_id, role_key) ==
    \/ get_accepted_role_ids(role_key) = {}
    \/ get_accepted_role_ids(role_key) \cap member_roles[user_id] # {}

\* C15: when handle_add processes a configured glyph from a user who holds
\* the staff role, it registers and issues the removal of that reaction and
\* returns; no step of that handler changes a Signup or schedules a
\* re-render.
C15_StaffReactionRefused ==
    [][\A i \in 1..MaxTasks :
          /\ (GateStep(i) /\ holds_staff(tasks[i].u))
                => /\ tasks'[i].pc = "reject_remove"
                   /\ <<tasks[i].m, tasks[i].u, tasks[i].g>> \in pending_removals'
          /\ ( /\ tasks[i].kind = "add" /\ tasks'[i] # tasks[i]
               /\ holds_staff(tasks[i].u) )
                => signups' = signups /\ render_pending' = render_pending]_vars

\* C16 as stated: for a non-staff user and a non-declined role key, handle_add
\* goes on to the upsert if and only if the accepted set of the role is empty
\* or intersects the user's role identifiers.
C16_UpsertIffEligible ==
    [][\A i \in 1..MaxTasks :
          ( /\ GateStep(i) /\ ~holds_staff(tasks[i].u)
            /\ emoji_to_role_key(tasks[i].g) # "declined" )
          => (tasks'[i].pc = "get_signup"
                <=> eligible(tasks[i].u, emoji_to_role_key(tasks[i].g)))]_vars

\* C16: for a non-staff user and a non-declined role key, handle_add goes on
\* to the upsert if and only if the accepted set of the role is empty, or the
\* guild lookup returned and the user's role identifiers intersect the set; a
\* lookup that raises counts as not eligible.  Otherwise the reaction's removal
\* is registered and issued and the handler changes no Signup.  The declined
\* glyph always goes on to the upsert.
C16_UpsertIffEligibleAndLookedUp ==
    [][\A i \in 1..MaxTasks :
          /\ (GateStep(i) /\ ~holds_staff(tasks[i].u))
             => LET role_key == emoji_to_role_key(tasks[i].g)
                IN  /\ tasks'[i].pc \in {"get_signup", "reject_remove"}
                    /\ role_key = "declined" => tasks'[i].pc = "get_signup"
                    /\ role_key # "declined" =>
                          (tasks'[i].pc = "get_signup"
                             <=> /\ eligible(tasks[i].u, role_key)
                                 /\ tasks'[i].role_check # "failed")
                    /\ tasks'[i].pc = "reject_remove" =>
                          /\ <<tasks[i].m, tasks[i].u, tasks[i].g>> \in pending_removals'
                          /\ signups' = signups
          /\ (tasks[i].pc = "reject_remove" /\ tasks'[i] # tasks[i])
             => /\ signups' = signups
                /\ tasks'[i].pc = "done"
                /\ \/ <<tasks[i].m, tasks[i].u, tasks[i].g>> \notin reactions'
                   \/ <<tasks[i].m, tasks[i].u, tasks[i].g>> \notin pending_removals']_vars

\* u1, who holds r1, is signed up under the restricted role bravo, and u2,
\* who does not, is being refused it after a lookup that returned
C16_Witness ==
    /\ [event_id |-> 1, user_id |-> "u1", role_key |-> "bravo"] \in signups
    /\ \E i \in 1..MaxTasks :
          /\ tasks[i].pc = "reject_remove"
          /\ tasks[i].u = "u2" /\ tasks[i].g = "B"
          /\ tasks[i].role_check = "returned"

\* Dialogue d takes a step.
DialogStep(d) == dialogs[d].pc # "idle" /\ dialogs'[d] # dialogs[d]

\* the initiator is the creator of the event or holds the staff role
may_manage(user_id, event_id) ==
    user_id = events[event_id].creator_id \/ holds_staff(user_id)

\* C18: an edit or delete dialogue changes the events, the signups or the
\* event posts only when its initiator is the creator of its event or holds
\* the staff role; the dialogue of any other initiator ends at the permission
\* check.
C18_ManageOnlyCreatorOrStaff ==
    [][\A d \in 1..MaxDialogs :
          (DialogStep(d) /\ dialogs[d].kind \in {"edit", "delete"})
          => \/ may_manage(dialogs[d].user, dialogs[d].event_id)
             \/ /\ dialogs[d].pc \in {"get_event", "done"}
                /\ dialogs'[d].pc = IF dialogs[d].pc = "done" THEN "idle" ELSE "done"
                /\ events' = events /\ signups' = signups /\ board' = board]_vars

\* the member u1, who does not hold the staff role, has changed the title of
\* the posting u1 created
C18_Witness ==
    \E d \in 1..MaxDialogs :
        /\ dialogs[d].kind = "edit" /\ dialogs[d].user = "u1"
        /\ dialogs[d].event_id = 2
        /\ dialogs[d].pc = "re_render_get_event"
        /\ events[2].title = "t1"
        /\ ~holds_staff("u1")

EventFields ==
    {"message_id", "creator_id", "title", "description", "event_time",
     "reminder_sent", "expired"}

\* C19: the update_event of an edit dialogue changes the chosen field of the
\* dialogue's event to the new value and no other attribute of any event; no
\* other step of an edit dialogue changes an event, and no step of it changes
\* a Signup.
C19_EditChangesOneField ==
    [][\A d \in 1..MaxDialogs :
          (DialogStep(d) /\ dialogs[d].kind = "edit")
          => /\ signups' = signups
             /\ \A e \in EventIds, f \in EventFields :
                   events'[e][f] # events[e][f]
                   => /\ dialogs[d].pc = "update_event"
                      /\ e = dialogs[d].event_id
                      /\ f = dialogs[d].field
             /\ (dialogs[d].pc = "update_event" /\ dialogs'[d].pc # "done")
                   => events'[dialogs[d].event_id][dialogs[d].field] =
                         IF dialogs[d].field = "event_time" THEN dialogs[d].time
                         ELSE dialogs[d].text]_vars

\* an edit has moved the time of the first posting, whose reminder had been
\* sent; its title, its description and its flags are as they were
C19_Witness ==
    \E d \in 1..MaxDialogs :
        /\ dialogs[d].kind = "edit" /\ dialogs[d].event_id = 1
        /\ dialogs[d].field = "event_time"
        /\ dialogs[d].pc = "re_render_get_event"
        /\ events[1].event_time = 90000
        /\ events[1].title = "t0" /\ events[1].description = "d0"
        /\ events[1].reminder_sent /\ ~events[1].expired

\* C20: a delete dialogue changes the store and the event post only after the
\* reply "yes" (any other reply ends it with the event, its signups and the
\* post untouched), and when a confirmed deletion completes, whether or not
\* the remote message could be deleted, the event is retired and has no
\* Signup rows.
C20_DeleteOnlyAfterYes ==
    [][\A d \in 1..MaxDialogs :
          (DialogStep(d) /\ dialogs[d].kind = "delete")
          => /\ dialogs[d].pc \in {"get_event", "wait_confirm"}
                  => events' = events /\ signups' = signups /\ board' = board
             /\ ( /\ dialogs[d].pc = "mark_expired"
                  /\ events'[dialogs[d].event_id].expired )
                  => \A s \in signups' : s.event_id # dialogs[d].event_id]_vars

\* The prompts of the three dialogues.
WaitPcs ==
    {"wait_title", "wait_description", "wait_time", "wait_choice", "wait_value",
     "wait_confirm"}

\* The step of dialogue d changes neither the store nor the board.
NoSideEffects == events' = events /\ signups' = signups /\ board' = board

\* C21: when a create, edit or delete dialogue is answered "cancel", in any
\* letter case, at any of its prompts, it ends there, and neither that step
\* nor the return of the task creates or updates an Event row, retires an
\* event, changes a Signup or posts to or edits the board.
C21_CancelNoSideEffects ==
    [][\A d \in 1..MaxDialogs :
          /\ ( /\ DialogStep(d) /\ dialogs[d].pc \in WaitPcs
               /\ dialogs'[d].reply \in {"cancel", "CANCEL"} )
               => dialogs'[d].pc = "done" /\ NoSideEffects
          /\ (DialogStep(d) /\ dialogs[d].pc = "done")
               => dialogs'[d].pc = "idle" /\ NoSideEffects]_vars

\* a create dialogue was answered "CANCEL" at one of its prompts and has
\* ended with nothing posted or persisted
C21_Witness ==
    \E d \in 1..MaxDialogs :
        /\ dialogs[d].pc = "done" /\ dialogs[d].kind = "event"
        /\ dialogs[d].reply = "CANCEL" /\ dialogs[d].sent = "cancelled"
        /\ Len(events) = 1
        /\ board["m2"] = NoPost

\* C22: when a prompt of a create, edit or delete dialogue gets no answer
\* within the timeout, the dialogue ends there and hands a timeout notice to
\* the initiator; no step of a dialogue up to and including a prompt changes
\* the store or the board, so both are as they were when the dialogue
\* started.
C22_TimeoutNoPartialState ==
    [][\A d \in 1..MaxDialogs :
          /\ ( /\ DialogStep(d) /\ dialogs[d].pc \in WaitPcs
               /\ dialogs'[d].reply = TimeoutError )
               => dialogs'[d].pc = "done" /\ dialogs'[d].sent = "timeout"
          /\ ( /\ DialogStep(d)
               /\ dialogs[d].pc \in WaitPcs \cup {"is_command_staff", "get_event"} )
               => NoSideEffects]_vars

\* an edit dialogue timed out at the prompt for the new value and has ended
\* with the notice, the event as it was
C22_Witness ==
    \E d \in 1..MaxDialogs :
        /\ dialogs[d].pc = "done" /\ dialogs[d].kind = "edit"
        /\ dialogs[d].event_id = 1
        /\ dialogs[d].reply = TimeoutError /\ dialogs[d].sent = "timeout"
        /\ hist.commands = 1
        /\ events[1].title = "t0" /\ events[1].description = "d0"
        /\ events[1].event_time = 600

\* C23: a command whose initiator lacks the permission it needs (the staff
\* role for create; creator or staff role for edit and delete of an existing
\* event) ends at the permission check with no message of any kind handed
\* to the initiator.
C23_DenialIsSilent ==
    [][\A d \in 1..MaxDialogs :
          ( /\ DialogStep(d)
            /\ \/ dialogs[d].pc = "is_command_staff" /\ ~holds_staff(dialogs[d].user)
               \/ /\ dialogs[d].pc = "get_event"
                  /\ get_event_by_id(dialogs[d].event_id) # NoId
                  /\ ~may_manage(dialogs[d].user, dialogs[d].event_id) )
          => dialogs'[d].pc = "done" /\ dialogs'[d].sent = None]_vars

\* C24: a call of _is_duplicate(key) at time now returns true if and only if
\* _seen_events holds a time for the key that lies no more than the TTL
\* before now; a call that returns true leaves the recorded time as it is,
\* and a call that returns false records now.
C24_IsDuplicate ==
    [][DispatchStep =>
          LET k == dedup_key(Head(gw_queue))
              recorded == k \in DOMAIN seen_events /\ now - seen_events[k] <= _DEDUP_TTL
          IN  /\ hist'.last_dispatch.dup <=> recorded
              /\ k \in DOMAIN seen_events'
              /\ seen_events'[k] = IF recorded THEN seen_events[k] ELSE now]_vars

\* the second delivery of an event arrived 3 seconds after the first and was
\* accepted again
C24_Witness ==
    /\ hist.last_dispatch.redelivery
    /\ ~hist.last_dispatch.dup
    /\ now = 3
    /\ hist.last_dispatch.key \in DOMAIN seen_events
    /\ seen_events[hist.last_dispatch.key] = now

\* The removal tuple of the outbound call task i is suspended in.
removal_of(i) ==
    <<tasks[i].m, tasks[i].u,
      IF tasks[i].pc = "switch_remove" THEN role_key_to_emoji(tasks[i].existing)
      ELSE tasks[i].g>>

\* C25: handle_add registers (message id, user id, glyph) in the
\* pending-removal set in the step that issues the removal, for a refused
\* glyph as for the prior glyph of a role switch, and the remove event the
\* removal causes finds its tuple in the set when it is handled (an event
\* the dedup guard drops is not handled).
C25_RegisteredBeforeRemoval ==
    [][/\ \A i \in 1..MaxTasks :
            ( /\ tasks'[i] # tasks[i]
              /\ tasks'[i].pc \in {"reject_remove", "switch_remove"} )
            => removal_of(i)' \in pending_removals'
       /\ ( /\ DispatchStep
            /\ Head(gw_queue).kind = "remove" /\ Head(gw_queue).by_bot
            /\ ~Head(gw_queue).redelivery
            /\ ~_is_duplicate(dedup_key(Head(gw_queue)), seen_events, now) )
          => <<Head(gw_queue).m, Head(gw_queue).u, Head(gw_queue).g>>
                \in pending_removals]_vars

RemovalKeys == {<<BoardMessage, u, g>> : u \in Members, g \in ConfiguredGlyphs}

\* C26: every tuple added to the pending-removal set is eventually removed
\* from it: no tuple stays in the set forever.
C26_PendingEventuallyRemoved ==
    \A removal_key \in RemovalKeys : []<>(removal_key \notin pending_removals)

\* handle_remove(i) takes a step
RemoveStep(i) == tasks[i].kind = "remove" /\ tasks'[i] # tasks[i]

render_scheduled(event_id) ==
    /\ render_pending'[event_id] # 0
    /\ render_tasks'[render_pending'[event_id]].pc = "sleep"
    /\ render_tasks'[render_pending'[event_id]].event_id = event_id

\* C27: a remove event that is not self-inflicted, on the post of an active
\* event and with a configured glyph, deletes the user's signup and schedules
\* a re-render if and only if the role key of the user's signup, at the time
\* of the deletion, is the removed glyph's; otherwise it changes neither
\* the store nor the render registry.
C27_RemoveIffCurrentRole ==
    [][\A i \in 1..MaxTasks :
          RemoveStep(i) /\ tasks[i].pc \in {"get_signup", "remove_signup"} =>
              LET t == tasks[i]
                  deleted == /\ signups' = {x \in signups :
                                    ~(x.event_id = t.event_id /\ x.user_id = t.u)}
                             /\ render_scheduled(t.event_id)
                  untouched == /\ signups' = signups
                               /\ render_pending' = render_pending
                               /\ render_tasks' = render_tasks
              IN  /\ t.pc = "remove_signup" =>
                        /\ deleted
                        /\ [event_id |-> t.event_id, user_id |-> t.u,
                             role_key |-> emoji_to_role_key(t.g)] \in signups
                  /\ t.pc = "get_signup" =>
                        /\ untouched
                        /\ tasks'[i].pc = "remove_signup" <=>
                              [event_id |-> t.event_id, user_id |-> t.u,
                               role_key |-> emoji_to_role_key(t.g)] \in signups]_vars

\* handle_add(i) returns from its event lookup for a message that is the post
\* of no active event
UnresolvedAdd(i) ==
    /\ tasks[i].kind = "add" /\ tasks[i].pc = "get_event"
    /\ tasks'[i] # tasks[i]
    /\ \A id \in DOMAIN events :
          events[id].message_id = tasks[i].m => events[id].expired

\* C28: an add event whose message is the post of no active event (a message
\* that is no event post, or the post of a retired event) is ignored: the
\* handler returns having written no signup, issued no reaction removal,
\* left the pending-removal set alone and scheduled no re-render.
C28_UntrackedAddIgnored ==
    [][\A i \in 1..MaxTasks :
          UnresolvedAdd(i) =>
              /\ tasks'[i] = [tasks[i] EXCEPT !.pc = "done"]
              /\ tasks[i].removed = <<>>
              /\ signups' = signups
              /\ reactions' = reactions /\ gw_queue' = gw_queue
              /\ pending_removals' = pending_removals
              /\ render_pending' = render_pending /\ render_tasks' = render_tasks
              /\ board' = board]_vars

\* handle_add has returned from a click on the retired event's post and from
\* one on a message that is no event post; the reactions are still there
C28_Witness ==
    /\ \E i \in 1..MaxTasks :
          tasks[i].kind = "add" /\ tasks[i].m = "m2" /\ tasks[i].pc = "done"
    /\ \E i \in 1..MaxTasks :
          tasks[i].kind = "add" /\ tasks[i].m = "m0" /\ tasks[i].pc = "done"
    /\ \E u \in Users, g \in Glyphs : <<"m2", u, g>> \in reactions
    /\ signups = {}

\* the render tasks of an event that are scheduled and neither finished nor
\* cancelled
outstanding(event_id) ==
    {r \in RenderSlots : /\ render_tasks[r].pc # "idle"
                          /\ ~render_tasks[r].cancelled
                          /\ render_tasks[r].event_id = event_id}

\* C29: at any time at most one render task per event id is outstanding.
C29_OneOutstandingRender ==
    \A event_id \in EventIds : Cardinality(outstanding(event_id)) <= 1

\* C30: a render task cancelled by a newer _schedule_re_render call has not
\* started re-rendering at the moment of cancellation: it has read nothing
\* from the store (no event row, no roster).
C30_CancelledBeforeRendering ==
    \A r \in RenderSlots :
        render_tasks[r].cancelled =>
            /\ render_tasks[r].event = NoEvent
            /\ render_tasks[r].pc \notin {"get_signups", "edit"}

\* C31: the time step of the create dialogue allows the first attempt plus
\* up to 3 further attempts: it gives up ("too many failed attempts") only on
\* an unparsable answer that follows 3 earlier unparsable answers.
C31_ThreeRetries ==
    [][\A d \in 1..MaxDialogs :
          ( /\ CreateStep(d)
            /\ dialogs[d].pc = "wait_time"
            /\ dialogs'[d].sent = "too_many_attempts" )
          => dialogs[d].attempt = 3]_vars

\* a call of ExampleHandler._is_duplicate has returned
ExampleStep == hist'.calls = hist.calls + 1

\* C32: ExampleHandler._is_duplicate returns true only for a key that an
\* earlier call recorded less than 5 seconds before; the first call ever made
\* for a key returns false, whatever the monotonic clock reads.
C32_DuplicateOnlyIfRecorded ==
    [][ExampleStep /\ hist'.example.dup =>
          /\ hist'.example.key \in DOMAIN _recent_events
          /\ monotonic - _recent_events[hist'.example.key] < 5]_vars

\* C33: while a render task scheduled for an event is unfinished, the entry
\* of the event in _render_pending is there and refers to such a task: the
\* finally clause of an older task never takes the entry of a newer one away.
C33_RegistryKeepsNewest ==
    \A event_id \in EventIds :
        outstanding(event_id) # {} => render_pending[event_id] \in outstanding(event_id)

\* every inbound event is processed and every handler, render task and
\* dialogue has returned
Quiescent ==
    /\ gw_queue = <<>>
    /\ \A i \in 1..MaxTasks : tasks[i].pc = "idle"
    /\ \A r \in RenderSlots : render_tasks[r].pc = "idle"
    /\ \A d \in 1..MaxDialogs : dialogs[d].pc = "idle"

\* no outbound edit of a render has failed
NoEditFailed ==
    /\ ~hist.edit_failed
    /\ \A event_id \in EventIds : hist.burst[event_id].edits # -1

\* C34: at quiescence, with no outbound failure, the post of each active
\* event shows the event fields and the roster the store holds.
C34_DisplayedIsStored ==
    Quiescent /\ NoEditFailed =>
        \A event_id \in EventIds :
            ~events[event_id].expired =>
                board[events[event_id].message_id] =
                    render_event_post(events[event_id], get_signups_for_event(event_id))

\* the gateway hands over a remove event that a member caused, and the dedup
\* guard lets it through
GenuineRemoval ==
    /\ DispatchStep
    /\ Head(gw_queue).kind = "remove" /\ ~Head(gw_queue).by_bot
    /\ ~Head(gw_queue).redelivery
    /\ ~_is_duplicate(dedup_key(Head(gw_queue)), seen_events, now)

\* C35: a member's own removal of the glyph of their current signup is never
\* taken for a removal of the bot: its tuple is not in the pending-removal
\* set when it is handled, and handle_remove starts for it.
C35_GenuineRemovalNotSwallowed ==
    [][( /\ GenuineRemoval
         /\ [event_id |-> get_event_by_message_id(Head(gw_queue).m),
             user_id |-> Head(gw_queue).u,
             role_key |-> emoji_to_role_key(Head(gw_queue).g)] \in signups )
       => /\ <<Head(gw_queue).m, Head(gw_queue).u, Head(gw_queue).g>>
                \notin pending_removals
          /\ pending_removals' = pending_removals
          /\ \E i \in 1..MaxTasks :
                tasks[i].pc = "idle" /\ tasks'[i].pc = "get_event"]_vars

\* the configured glyphs a member holds on the post of an event
held(event_id, user_id) ==
    {g \in ConfiguredGlyphs : <<events[event_id].message_id, user_id, g>> \in reactions}

\* C36: at quiescence, when no removal the bot issued has failed, a member
\* has a signup with role key r on an active event if and only if the member
\* holds the glyph of r on its post, and the member holds no other configured
\* glyph there.
C36_RosterMatchesReactions ==
    Quiescent /\ ~hist.removal_failed =>
        \A event_id \in EventIds, user_id \in Members :
            ~events[event_id].expired =>
                LET role_key == get_signup(event_id, user_id)
                IN  held(event_id, user_id) =
                        IF role_key = None THEN {} ELSE {role_key_to_emoji(role_key)}

\* C37: no signup row is attached to a retired event.
C37_NoSignupOnRetired ==
    \A s \in signups : ~events[s.event_id].expired

\* C38: no signup row belongs to a member who holds the staff role.
C38_NoStaffSignup ==
    \A s \in signups : command_staff_role_id \notin member_roles[s.user_id]

\* C39: across any sequence of start() and stop() calls at most one reminder
\* loop and at most one cleanup loop are running, and a loop that was running
\* when stop() was called begins no further sweep.
C39_OneLoopEach ==
    /\ \A loop \in LoopKinds : Cardinality(live(loop)) <= 1
    /\ hist.swept = {}

\* C40: two dialogues of the same initiator are never awaiting a direct
\* message at the same time (so one reply cannot advance two dialogues).
C40_OneAwaitingDialogue ==
    \A d, q \in DOMAIN dialogs :
        ( /\ d # q
          /\ dialogs[d].pc \in WaitPcs /\ dialogs[q].pc \in WaitPcs )
        => dialogs[d].user # dialogs[q].user

====
